---------------------------- MODULE Spec2Model ----------------------------
(***************************************************************************)
(* Debt-netting and settlement engine of lendx:                            *)
(*   src/src/services/iou.py          graph store, add_iou                 *)
(*   src/backend/graph/cycles.py      detect_cycle (breadth-first search)  *)
(*   src/src/graph/reduce.py          reduce_cycle                         *)
(*   src/src/graph/nets.py            compute_nets                         *)
(*   src/src/services/settlement.py   proposals and their state machine    *)
(*                                                                         *)
(* Amounts.  The code computes with floats and compares against            *)
(* EPSILON = 1e-9.  The model counts amounts in whole multiples of 2^-30   *)
(* (about 9.31e-10): such floats and their sums and differences are exact, *)
(* and 1e-9 lies strictly between 1 and 2 of these units, so for every     *)
(* amount x of the model the code's `x <= EPSILON` is `x <= 1` and         *)
(* `x > EPSILON` is `x > 1`.                                               *)
(***************************************************************************)
EXTENDS Integers, Sequences, FiniteSets, TLC

VARIABLES
    _graphs,          \* iou._graphs: group_id -> Graph(edges, updated_at)
    _nets_cache,      \* iou._nets_cache: group_id -> nets (in dict order)
    clock,            \* number of time.time() readings taken so far
    _proposal_store,  \* settlement._proposal_store: proposal_id -> proposal
    _balance_cache,   \* balance_sync._balance_cache._cache: group_id -> balances
    threads,          \* concurrent calls: position and locals per thread
    last              \* the last call: operation, arguments, outcome, state before

vars == << _graphs, _nets_cache, clock, _proposal_store, _balance_cache,
          threads, last >>

-----------------------------------------------------------------------------
(* Bounds and inputs *)

Users == {"A", "B", "C"}
\* Groups of the sequential graph store.
Groups == {"g1"}
\* Amounts offered to add_iou, in units of 2^-30: valid ones and an invalid
\* one.  3 - 1 leaves a residue above EPSILON and 3 - (3 - 1) one that is not.
Amounts == {1, 3}
BadAmounts == {0}
\* Calls of add_iou that reach the graph store in one behaviour.
MaxCalls == 3

EPSILON == 1
REQUIRED_SIGNATURES == 2

None == "None"

-----------------------------------------------------------------------------
(* Sequence helpers *)

RECURSIVE SumSeq(_)
SumSeq(s) == IF s = << >> THEN 0 ELSE Head(s) + SumSeq(Tail(s))

RECURSIVE MinSeq(_)
MinSeq(s) == IF Len(s) = 1 THEN s[1]
             ELSE LET m == MinSeq(Tail(s)) IN IF s[1] <= m THEN s[1] ELSE m

Reverse(s) == [i \in 1..Len(s) |-> s[Len(s) + 1 - i]]

Range(s) == {s[i] : i \in 1..Len(s)}

-----------------------------------------------------------------------------
(* graph/types.py *)

Edge(debtor, creditor, amount) ==
    [debtor |-> debtor, creditor |-> creditor, amount |-> amount]

Graph(edges, updated_at) == [edges |-> edges, updated_at |-> updated_at]

-----------------------------------------------------------------------------
(* graph/nets.py: compute_nets.  A dict is a sequence of entries in         *)
(* insertion order; balances[k] += x on a defaultdict inserts k at the end  *)
(* when it is new.                                                          *)

DictKeys(d) == {d[i].user : i \in 1..Len(d)}

DictGet(d, k) ==
    IF k \in DictKeys(d)
    THEN d[CHOOSE i \in 1..Len(d) : d[i].user = k].amount
    ELSE 0

\* balances[k] += x
DictAdd(d, k, x) ==
    IF k \in DictKeys(d)
    THEN [i \in 1..Len(d) |->
             IF d[i].user = k THEN [user |-> k, amount |-> d[i].amount + x]
                              ELSE d[i]]
    ELSE Append(d, [user |-> k, amount |-> x])

\* compute_nets with the creditor's side of an edge forgotten.
compute_nets_bad(edges) ==
    LET F[i \in 0..Len(edges)] ==
            IF i = 0 THEN << >>
            ELSE DictAdd(F[i - 1], edges[i].debtor, edges[i].amount)
    IN F[Len(edges)]

compute_nets(edges) ==
    LET F[i \in 0..Len(edges)] ==
            IF i = 0 THEN << >>
            ELSE DictAdd(DictAdd(F[i - 1], edges[i].debtor, edges[i].amount),
                         edges[i].creditor, 0 - edges[i].amount)
    IN F[Len(edges)]

-----------------------------------------------------------------------------
(* graph/cycles.py: detect_cycle *)

\* adjacency.get(node, []): the creditors of node's edges, in edge order
Adjacency(edges, node) ==
    LET mine == SelectSeq(edges, LAMBDA e : e.debtor = node)
    IN [i \in 1..Len(mine) |-> mine[i].creditor]

\* the for loop over the neighbours of one dequeued node
RECURSIVE VisitNeighbors(_, _, _)
VisitNeighbors(neighbors, node, st) ==
    IF neighbors = << >> THEN st
    ELSE LET neighbor == Head(neighbors) IN
         IF neighbor \in DOMAIN st.parents
         THEN VisitNeighbors(Tail(neighbors), node, st)
         ELSE VisitNeighbors(Tail(neighbors), node,
                  [queue   |-> Append(st.queue, neighbor),
                   parents |-> [n \in DOMAIN st.parents \cup {neighbor} |->
                                   IF n = neighbor THEN node ELSE st.parents[n]]])

\* the while loop: the parents map when the search stops
RECURSIVE Bfs(_, _, _)
Bfs(edges, target, st) ==
    IF st.queue = << >> THEN st.parents
    ELSE LET node == Head(st.queue) IN
         IF node = target THEN st.parents
         ELSE Bfs(edges, target,
                  VisitNeighbors(Adjacency(edges, node), node,
                                 [queue |-> Tail(st.queue), parents |-> st.parents]))

\* the walk back from target along the parent pointers (target first)
RECURSIVE WalkBack(_, _)
WalkBack(parents, cursor) ==
    IF cursor = None THEN << >>
    ELSE << cursor >> \o WalkBack(parents, parents[cursor])

\* detect_cycle that only looks for the edge straight back: no search.
detect_cycle_direct(edges, new_edge) ==
    IF \E i \in 1..Len(edges) : /\ edges[i].debtor = new_edge.creditor
                               /\ edges[i].creditor = new_edge.debtor
    THEN << new_edge.creditor, new_edge.debtor, new_edge.creditor >>
    ELSE << >>

\* The closed path (start repeated at the end); << >> stands for None.
detect_cycle(edges, new_edge) ==
    LET start   == new_edge.creditor
        target  == new_edge.debtor
        parents == Bfs(edges, target,
                       [queue |-> << start >>, parents |-> (start :> None)])
    IN IF start = target THEN << start, start >>
       ELSE IF target \notin DOMAIN parents THEN << >>
       ELSE Append(Reverse(WalkBack(parents, target)), start)

-----------------------------------------------------------------------------
(* graph/reduce.py: reduce_cycle *)

\* cycle_pairs = list(zip(cycle_path, cycle_path[1:]))
CyclePairs(cycle_path) ==
    [i \in 1..(Len(cycle_path) - 1) |-> << cycle_path[i], cycle_path[i + 1] >>]

\* indices of the edges of one (debtor, creditor) pair not yet popped
Unused(edges, pair, used) ==
    {i \in 1..Len(edges) :
        /\ edges[i].debtor = pair[1]
        /\ edges[i].creditor = pair[2]
        /\ i \notin used}

\* CycleIndices taking the last edge of a pair instead of the first.
RECURSIVE CycleIndices_last(_, _, _)
CycleIndices_last(edges, pairs, chosen) ==
    IF pairs = << >> THEN [ok |-> TRUE, indices |-> chosen]
    ELSE LET free == Unused(edges, Head(pairs), Range(chosen)) IN
         IF free = {} THEN [ok |-> FALSE, indices |-> chosen]
         ELSE CycleIndices_last(edges, Tail(pairs),
                  Append(chosen, CHOOSE i \in free : \A j \in free : i >= j))

\* cycle_indices: per pair, indices.pop(0); ok is FALSE when a pair has no
\* edge left (the "Missing edge" ValueError)
RECURSIVE CycleIndices(_, _, _)
CycleIndices(edges, pairs, chosen) ==
    IF pairs = << >> THEN [ok |-> TRUE, indices |-> chosen]
    ELSE LET free == Unused(edges, Head(pairs), Range(chosen)) IN
         IF free = {} THEN [ok |-> FALSE, indices |-> chosen]
         ELSE CycleIndices(edges, Tail(pairs),
                  Append(chosen, CHOOSE i \in free : \A j \in free : i <= j))

\* Rebuild with the pruning test lost: a matched edge is kept at any amount.
RECURSIVE Rebuild_keep(_, _, _, _)
Rebuild_keep(edges, idx, cycle_index_set, min_amount) ==
    IF idx > Len(edges) THEN << >>
    ELSE LET edge == edges[idx]
             rest == Rebuild_keep(edges, idx + 1, cycle_index_set, min_amount)
         IN IF idx \notin cycle_index_set THEN << edge >> \o rest
            ELSE << Edge(edge.debtor, edge.creditor, edge.amount - min_amount) >>
                 \o rest

\* Rebuild pruning only what fell below zero: an edge lowered to 0 stays.
RECURSIVE Rebuild_zero(_, _, _, _)
Rebuild_zero(edges, idx, cycle_index_set, min_amount) ==
    IF idx > Len(edges) THEN << >>
    ELSE LET edge == edges[idx]
             rest == Rebuild_zero(edges, idx + 1, cycle_index_set, min_amount)
             new_amount == edge.amount - min_amount
         IN IF idx \notin cycle_index_set THEN << edge >> \o rest
            ELSE IF new_amount >= 0
                 THEN << Edge(edge.debtor, edge.creditor, new_amount) >> \o rest
                 ELSE rest

\* Rebuild dropping every matched edge, whatever is left of it.
RECURSIVE Rebuild_drop(_, _, _, _)
Rebuild_drop(edges, idx, cycle_index_set, min_amount) ==
    IF idx > Len(edges) THEN << >>
    ELSE LET rest == Rebuild_drop(edges, idx + 1, cycle_index_set, min_amount)
         IN IF idx \notin cycle_index_set THEN << edges[idx] >> \o rest
            ELSE rest

\* the rebuilt list: untouched edges kept, matched edges lowered or dropped
RECURSIVE Rebuild(_, _, _, _)
Rebuild(edges, idx, cycle_index_set, min_amount) ==
    IF idx > Len(edges) THEN << >>
    ELSE LET edge == edges[idx]
             rest == Rebuild(edges, idx + 1, cycle_index_set, min_amount)
             new_amount == edge.amount - min_amount
         IN IF idx \notin cycle_index_set THEN << edge >> \o rest
            ELSE IF new_amount > EPSILON
                 THEN << Edge(edge.debtor, edge.creditor, new_amount) >> \o rest
                 ELSE rest

\* reduce_cycle with the guard on min_amount turned round: nothing is reduced.
reduce_cycle_noop(edges, cycle_path) ==
    IF Len(cycle_path) < 2 \/ cycle_path[1] # cycle_path[Len(cycle_path)]
    THEN [ok |-> FALSE, edges |-> edges]
    ELSE LET found == CycleIndices(edges, CyclePairs(cycle_path), << >>) IN
         IF ~found.ok THEN [ok |-> FALSE, edges |-> edges]
         ELSE LET cycle_amounts == [k \in 1..Len(found.indices) |->
                                       edges[found.indices[k]].amount]
                  min_amount == MinSeq(cycle_amounts)
              IN IF min_amount >= 0 THEN [ok |-> TRUE, edges |-> edges]
                 ELSE [ok |-> TRUE,
                       edges |-> Rebuild(edges, 1, Range(found.indices), min_amount)]

\* ok = FALSE is the ValueError; otherwise edges is the new list.
reduce_cycle(edges, cycle_path) ==
    IF Len(cycle_path) < 2 \/ cycle_path[1] # cycle_path[Len(cycle_path)]
    THEN [ok |-> FALSE, edges |-> edges]
    ELSE LET found == CycleIndices(edges, CyclePairs(cycle_path), << >>) IN
         IF ~found.ok THEN [ok |-> FALSE, edges |-> edges]
         ELSE LET cycle_indices == found.indices
                  cycle_amounts == [k \in 1..Len(cycle_indices) |->
                                       edges[cycle_indices[k]].amount]
                  min_amount == MinSeq(cycle_amounts)
              IN IF min_amount <= 0 THEN [ok |-> TRUE, edges |-> edges]
                 ELSE [ok |-> TRUE,
                       edges |-> Rebuild(edges, 1, Range(cycle_indices), min_amount)]

-----------------------------------------------------------------------------
(* services/iou.py: the graph store *)

NoGraphs == [g \in {} |-> Graph(<< >>, 0)]
NoCache  == [g \in {} |-> << >>]
NoBalanceCache == [g \in {} |-> << >>]

\* one slot shared by all groups: the write lands on every key
Put_shared(d, k, v) == [x \in DOMAIN d \cup {k} |-> v]

\* d[k] = v on a dict keyed by group_id
Put(d, k, v) == [x \in DOMAIN d \cup {k} |-> IF x = k THEN v ELSE d[x]]

\* graph.edges of a group, [] when the group has no graph
EdgesOf(graphs, group_id) ==
    IF group_id \in DOMAIN graphs THEN graphs[group_id].edges ELSE << >>

\* add_iou with _graphs.setdefault moved in front of the validation.
AddIou_setdefault_first(graphs, cache, now, group_id, debtor, creditor, amount) ==
    LET edges         == EdgesOf(graphs, group_id)
        old_stamp     == IF group_id \in DOMAIN graphs
                         THEN graphs[group_id].updated_at ELSE 0
        touched       == Put(graphs, group_id, Graph(edges, old_stamp))
        new_edge      == Edge(debtor, creditor, amount)
        updated_edges == Append(edges, new_edge)
        cycle_path    == detect_cycle(edges, new_edge)
        reduced       == IF cycle_path # << >>
                         THEN reduce_cycle(updated_edges, cycle_path)
                         ELSE [ok |-> TRUE, edges |-> updated_edges]
    IN IF amount <= 0 \/ debtor = creditor
       THEN [outcome |-> "InvalidInput", graphs |-> touched, cache |-> cache,
             now |-> now, ret |-> << >>, cycle_path |-> << >>]
       ELSE IF ~reduced.ok
       THEN [outcome |-> "InconsistentGraph", graphs |-> touched,
             cache |-> cache, now |-> now, ret |-> << >>,
             cycle_path |-> cycle_path]
       ELSE [outcome |-> "ok",
             graphs |-> Put(graphs, group_id, Graph(reduced.edges, now + 1)),
             cache |-> Put(cache, group_id, compute_nets(reduced.edges)),
             now |-> now + 1, ret |-> compute_nets(reduced.edges),
             cycle_path |-> cycle_path]

\* add_iou that leaves the cached nets of the group as they were.
AddIou_stale_cache(graphs, cache, now, group_id, debtor, creditor, amount) ==
    IF amount <= 0 \/ debtor = creditor
    THEN [outcome |-> "InvalidInput", graphs |-> graphs, cache |-> cache,
          now |-> now, ret |-> << >>, cycle_path |-> << >>]
    ELSE LET edges         == EdgesOf(graphs, group_id)
             old_stamp     == IF group_id \in DOMAIN graphs
                              THEN graphs[group_id].updated_at ELSE 0
             new_edge      == Edge(debtor, creditor, amount)
             updated_edges == Append(edges, new_edge)
             cycle_path    == detect_cycle(edges, new_edge)
             reduced       == IF cycle_path # << >>
                              THEN reduce_cycle(updated_edges, cycle_path)
                              ELSE [ok |-> TRUE, edges |-> updated_edges]
         IN IF ~reduced.ok
            THEN [outcome |-> "InconsistentGraph",
                  graphs |-> Put(graphs, group_id, Graph(edges, old_stamp)),
                  cache |-> cache, now |-> now, ret |-> << >>,
                  cycle_path |-> cycle_path]
            ELSE [outcome |-> "ok",
                  graphs |-> Put(graphs, group_id, Graph(reduced.edges, now + 1)),
                  cache |-> cache,
                  now |-> now + 1, ret |-> compute_nets(reduced.edges),
                  cycle_path |-> cycle_path]

\* What one uninterrupted add_iou call does to the store and returns.
AddIou(graphs, cache, now, group_id, debtor, creditor, amount) ==
    IF amount <= 0 \/ debtor = creditor
    THEN [outcome |-> "InvalidInput", graphs |-> graphs, cache |-> cache,
          now |-> now, ret |-> << >>, cycle_path |-> << >>]
    ELSE LET edges         == EdgesOf(graphs, group_id)          \* setdefault
             old_stamp     == IF group_id \in DOMAIN graphs
                              THEN graphs[group_id].updated_at ELSE 0
             new_edge      == Edge(debtor, creditor, amount)
             updated_edges == Append(edges, new_edge)
             cycle_path    == detect_cycle(edges, new_edge)
             reduced       == IF cycle_path # << >>
                              THEN reduce_cycle(updated_edges, cycle_path)
                              ELSE [ok |-> TRUE, edges |-> updated_edges]
         IN IF ~reduced.ok
            THEN \* reduce_cycle raised: only the setdefault has happened
                 [outcome |-> "InconsistentGraph",
                  graphs |-> Put(graphs, group_id, Graph(edges, old_stamp)),
                  cache |-> cache, now |-> now, ret |-> << >>,
                  cycle_path |-> cycle_path]
            ELSE LET nets == compute_nets(reduced.edges) IN
                 [outcome |-> "ok",
                  graphs |-> Put(graphs, group_id, Graph(reduced.edges, now + 1)),
                  cache |-> Put(cache, group_id, nets),
                  now |-> now + 1, ret |-> nets, cycle_path |-> cycle_path]

add_iou(group_id, debtor, creditor, amount) ==
    /\ clock < MaxCalls
    /\ LET r == AddIou(_graphs, _nets_cache, clock,
                       group_id, debtor, creditor, amount) IN
       /\ _graphs' = r.graphs
       /\ _nets_cache' = r.cache
       /\ clock' = r.now
       /\ last' = [op |-> "add_iou",
                   args |-> [group_id |-> group_id, debtor |-> debtor,
                             creditor |-> creditor, amount |-> amount],
                   outcome |-> r.outcome, ret |-> r.ret,
                   cycle_path |-> r.cycle_path,
                   before |-> [graphs |-> _graphs, cache |-> _nets_cache]]
    /\ UNCHANGED << _proposal_store, threads, _balance_cache >>

\* What get_group_balances does to the cache and returns.
GetGroupBalances(graphs, cache, group_id) ==
    IF group_id \notin DOMAIN graphs
    THEN [cache |-> cache, ret |-> << >>]
    ELSE LET filled == IF group_id \notin DOMAIN cache
                       THEN Put(cache, group_id, compute_nets(graphs[group_id].edges))
                       ELSE cache
         IN [cache |-> filled, ret |-> filled[group_id]]

get_group_balances(group_id) ==
    /\ LET r == GetGroupBalances(_graphs, _nets_cache, group_id) IN
       /\ _nets_cache' = r.cache
       /\ last' = [op |-> "get_group_balances",
                   args |-> [group_id |-> group_id],
                   outcome |-> "ok", ret |-> r.ret,
                   cycle_path |-> << >>,
                   before |-> [graphs |-> _graphs, cache |-> _nets_cache]]
    /\ UNCHANGED << _graphs, clock, _proposal_store, threads, _balance_cache >>

-----------------------------------------------------------------------------
(* services/settlement.py: building a proposal *)

DROPS_PER_UNIT == 1000000
\* one whole unit of amount, counted in the model's units of 2^-30
UnitScale == 1073741824

Payment(payer, payee, amount) ==
    [payer |-> payer, payee |-> payee, amount |-> amount]

EscrowInstruction(payment, transaction) ==
    [payment |-> payment, transaction |-> transaction,
     tx_hash |-> None, confirmed |-> FALSE, executed |-> FALSE]

\* the lists left in the order they were collected in: no sort
SortDescending_none(items) == items

\* list.sort(key=amount, reverse=True): a stable sort, descending by amount
RECURSIVE SortDescending(_)
SortDescending(items) ==
    IF items = << >> THEN << >>
    ELSE LET n      == Len(items)
             sorted == SortDescending(SubSeq(items, 1, n - 1))
             x      == items[n]
             \* x goes behind every entry at least as large
             k      == Cardinality({i \in 1..Len(sorted) : sorted[i].amount >= x.amount})
         IN SubSeq(sorted, 1, k) \o << x >> \o SubSeq(sorted, k + 1, Len(sorted))

\* the loop paying the larger of the two remainders instead of the smaller
RECURSIVE Match_max(_, _, _, _, _)
Match_max(debtors, creditors, debtor_idx, creditor_idx, payments) ==
    IF ~(debtor_idx <= Len(debtors) /\ creditor_idx <= Len(creditors))
    THEN payments
    ELSE LET debtor   == debtors[debtor_idx]
             creditor == creditors[creditor_idx]
             amount   == IF debtor.amount >= creditor.amount
                         THEN debtor.amount ELSE creditor.amount
             d_left   == debtor.amount - amount
             c_left   == creditor.amount - amount
         IN Match_max([debtors EXCEPT ![debtor_idx].amount = d_left],
                      [creditors EXCEPT ![creditor_idx].amount = c_left],
                      IF d_left <= EPSILON THEN debtor_idx + 1 ELSE debtor_idx,
                      IF c_left <= EPSILON THEN creditor_idx + 1 ELSE creditor_idx,
                      Append(payments, Payment(debtor.user, creditor.user, amount)))

\* the while loop of _build_payments
RECURSIVE Match(_, _, _, _, _)
Match(debtors, creditors, debtor_idx, creditor_idx, payments) ==
    IF ~(debtor_idx <= Len(debtors) /\ creditor_idx <= Len(creditors))
    THEN payments
    ELSE LET debtor   == debtors[debtor_idx]
             creditor == creditors[creditor_idx]
             amount   == IF debtor.amount <= creditor.amount
                         THEN debtor.amount ELSE creditor.amount
             d_left   == debtor.amount - amount
             c_left   == creditor.amount - amount
         IN Match([debtors EXCEPT ![debtor_idx].amount = d_left],
                  [creditors EXCEPT ![creditor_idx].amount = c_left],
                  IF d_left <= EPSILON THEN debtor_idx + 1 ELSE debtor_idx,
                  IF c_left <= EPSILON THEN creditor_idx + 1 ELSE creditor_idx,
                  Append(payments, Payment(debtor.user, creditor.user, amount)))

\* _build_payments partitioning on the sign alone, EPSILON forgotten
_build_payments_loose(nets) ==
    LET owing    == SelectSeq(nets, LAMBDA e : e.amount > 0)
        owed     == SelectSeq(nets, LAMBDA e : e.amount < 0)
        creditors == [i \in 1..Len(owed) |->
                         [user |-> owed[i].user, amount |-> 0 - owed[i].amount]]
    IN IF owing = << >> \/ creditors = << >> THEN << >>
       ELSE Match(SortDescending(owing), SortDescending(creditors), 1, 1, << >>)

_build_payments(nets) ==
    LET owing    == SelectSeq(nets, LAMBDA e : e.amount > EPSILON)
        owed     == SelectSeq(nets, LAMBDA e : e.amount < 0 - EPSILON)
        debtors   == owing
        creditors == [i \in 1..Len(owed) |->
                         [user |-> owed[i].user, amount |-> 0 - owed[i].amount]]
    IN IF debtors = << >> \/ creditors = << >> THEN << >>
       ELSE Match(SortDescending(debtors), SortDescending(creditors), 1, 1, << >>)

\* round(n / d) as Python rounds a float: to nearest, ties to even
RoundHalfEven(n, d) ==
    LET q == n \div d
        r == n % d
    IN IF 2 * r > d THEN q + 1
       ELSE IF 2 * r < d THEN q
       ELSE IF q % 2 = 0 THEN q ELSE q + 1

\* max(1, int(round(amount * DROPS_PER_UNIT)))
_to_drops(amount) ==
    LET drops == RoundHalfEven(amount * DROPS_PER_UNIT, UnitScale)
    IN IF drops >= 1 THEN drops ELSE 1

\* CancelAfter (now + ESCROW_HOLD_SECONDS) and the memo are left out: no
\* operation reads them.
_build_escrow_instruction(group_id, payment) ==
    EscrowInstruction(payment,
        [TransactionType |-> "EscrowCreate", Account |-> payment.payer,
         Destination |-> payment.payee, Amount |-> _to_drops(payment.amount)])

\* created_at and updated_at of a proposal are written and never read; the
\* model leaves them out.
SettlementProposal(proposal_id, group_id, payments, escrows) ==
    [proposal_id |-> proposal_id, group_id |-> group_id, payments |-> payments,
     escrows |-> escrows, signatures |-> << >>, status |-> "pending_signatures"]

-----------------------------------------------------------------------------
(* The graph store under sequential calls *)

NoCall == [op |-> "none", args |-> [group_id |-> None], outcome |-> "ok",
           ret |-> << >>, cycle_path |-> << >>,
           before |-> [graphs |-> NoGraphs, cache |-> NoCache]]

InitGraph ==
    /\ _graphs = NoGraphs
    /\ _nets_cache = NoCache
    /\ clock = 0
    /\ _proposal_store = << >>
    /\ _balance_cache = NoBalanceCache
    /\ threads = << >>
    /\ last = NoCall

NextGraph ==
    \/ \E g \in Groups, d \in Users, c \in Users, a \in Amounts \cup BadAmounts :
          add_iou(g, d, c, a)
    \/ \E g \in Groups : get_group_balances(g)

SpecGraph == InitGraph /\ [][NextGraph]_vars

-----------------------------------------------------------------------------
(* The graph store under concurrent add_iou calls.  iou.py takes no lock:   *)
(* worker threads may be switched between any two statements of add_iou,    *)
(* so each statement that reads or writes _graphs or _nets_cache is a step. *)

Threads == {"t1", "t2"}
ConcGroups == {"g1", "g2"}
ConcUsers == {"A", "B"}
\* Sequential add_iou calls on g1 made before the threads start.
MaxPrior == 1

\* the stores reachable from the empty one by at most n sequential valid
\* add_iou calls on g1, among users, of the amounts given
RECURSIVE ReachableStores(_, _, _)
ReachableStores(n, users, amounts) ==
    IF n = 0 THEN {[graphs |-> NoGraphs, cache |-> NoCache, now |-> 0]}
    ELSE LET prev == ReachableStores(n - 1, users, amounts) IN
         prev \cup
         {[graphs |-> r.graphs, cache |-> r.cache, now |-> r.now] :
             r \in {AddIou(s.graphs, s.cache, s.now, "g1", e[1], e[2], e[3]) :
                       s \in prev,
                       e \in {x \in users \X users \X amounts : x[1] # x[2]}}}

Idle == [pc |-> "idle", group_id |-> None, debtor |-> None, creditor |-> None,
         amount |-> 0, updated_edges |-> << >>, nets |-> << >>,
         outcome |-> "none"]

\* lines 22-28: validation, _graphs.setdefault, new_edge
t_call(t, group_id, debtor, creditor, amount) ==
    /\ threads[t].pc = "idle"
    /\ IF amount <= 0 \/ debtor = creditor
       THEN /\ threads' = [threads EXCEPT ![t] =
                             [@ EXCEPT !.pc = "done", !.outcome = "InvalidInput",
                                       !.group_id = group_id, !.debtor = debtor,
                                       !.creditor = creditor, !.amount = amount]]
            /\ UNCHANGED _graphs
       ELSE /\ threads' = [threads EXCEPT ![t] =
                             [@ EXCEPT !.pc = "L32",
                                       !.group_id = group_id, !.debtor = debtor,
                                       !.creditor = creditor, !.amount = amount]]
            /\ _graphs' = IF group_id \in DOMAIN _graphs THEN _graphs
                          ELSE Put(_graphs, group_id, Graph(<< >>, 0))
    /\ UNCHANGED << _nets_cache, clock, _proposal_store, last, _balance_cache >>

\* line 32: updated_edges = graph.edges + [new_edge]
t_L32(t) ==
    LET me == threads[t] IN
    /\ me.pc = "L32"
    /\ threads' = [threads EXCEPT ![t] =
          [@ EXCEPT !.pc = "L33",
                    !.updated_edges =
                        Append(_graphs[me.group_id].edges,
                               Edge(me.debtor, me.creditor, me.amount))]]
    /\ UNCHANGED << _graphs, _nets_cache, clock, _proposal_store, last, _balance_cache >>

\* lines 33-36: detect_cycle on graph.edges as it is now, then reduce_cycle on
\* the local updated_edges; a ValueError of reduce_cycle ends the call
t_L33(t) ==
    LET me == threads[t] IN
    /\ me.pc = "L33"
    /\ \E cycle_path \in {detect_cycle(_graphs[me.group_id].edges,
                                      Edge(me.debtor, me.creditor, me.amount))} :
       \E reduced \in {IF cycle_path # << >>
                       THEN reduce_cycle(me.updated_edges, cycle_path)
                       ELSE [ok |-> TRUE, edges |-> me.updated_edges]} :
          threads' = [threads EXCEPT ![t] =
             IF reduced.ok
             THEN [@ EXCEPT !.pc = "L38", !.updated_edges = reduced.edges]
             ELSE [@ EXCEPT !.pc = "done", !.outcome = "InconsistentGraph"]]
    /\ UNCHANGED << _graphs, _nets_cache, clock, _proposal_store, last, _balance_cache >>

\* line 38: graph.edges = updated_edges
t_L38(t) ==
    LET me == threads[t] IN
    /\ me.pc = "L38"
    /\ _graphs' = [_graphs EXCEPT ![me.group_id].edges = me.updated_edges]
    /\ threads' = [threads EXCEPT ![t].pc = "L39"]
    /\ UNCHANGED << _nets_cache, clock, _proposal_store, last, _balance_cache >>

\* line 39: graph.updated_at = time.time()
t_L39(t) ==
    LET me == threads[t] IN
    /\ me.pc = "L39"
    /\ clock' = clock + 1
    /\ _graphs' = [_graphs EXCEPT ![me.group_id].updated_at = clock + 1]
    /\ threads' = [threads EXCEPT ![t].pc = "L41"]
    /\ UNCHANGED << _nets_cache, _proposal_store, last, _balance_cache >>

\* line 41: nets = compute_nets(graph.edges)
t_L41(t) ==
    LET me == threads[t] IN
    /\ me.pc = "L41"
    /\ threads' = [threads EXCEPT ![t] =
          [@ EXCEPT !.pc = "L42",
                    !.nets = compute_nets(_graphs[me.group_id].edges)]]
    /\ UNCHANGED << _graphs, _nets_cache, clock, _proposal_store, last, _balance_cache >>

\* lines 42-45: _nets_cache[group_id] = nets; return nets.copy()
t_L42(t) ==
    LET me == threads[t] IN
    /\ me.pc = "L42"
    /\ _nets_cache' = Put(_nets_cache, me.group_id, me.nets)
    /\ threads' = [threads EXCEPT ![t] = [@ EXCEPT !.pc = "done", !.outcome = "ok"]]
    /\ UNCHANGED << _graphs, clock, _proposal_store, last, _balance_cache >>

\* last.before keeps the store the threads started from
InitConc ==
    \E s \in ReachableStores(MaxPrior, ConcUsers, Amounts) :
        /\ _graphs = s.graphs
        /\ _nets_cache = s.cache
        /\ clock = s.now
        /\ _proposal_store = << >>
        /\ _balance_cache = NoBalanceCache
        /\ threads = [t \in Threads |-> Idle]
        /\ last = [NoCall EXCEPT !.before = [graphs |-> s.graphs, cache |-> s.cache]]

NextConc ==
    \E t \in Threads :
        \/ \E g \in ConcGroups, d \in ConcUsers, c \in ConcUsers, a \in Amounts :
              d # c /\ t_call(t, g, d, c, a)
        \/ t_L32(t)
        \/ t_L33(t)
        \/ t_L38(t)
        \/ t_L39(t)
        \/ t_L41(t)
        \/ t_L42(t)

SpecConc == InitConc /\ [][NextConc]_vars

\* the statements of thread t's call, once it was made
Step(t) ==
    t_L32(t) \/ t_L33(t) \/ t_L38(t) \/ t_L39(t) \/ t_L41(t) \/ t_L42(t)

\* The worker of t1 is scheduled again and again; nothing is assumed of t2,
\* which may stop at any statement.
SpecConcFair == SpecConc /\ WF_vars(Step("t1"))

-----------------------------------------------------------------------------
(* services/settlement.py: the proposal store and its state machine.        *)
(* _submit_escrow_transaction and _finish_escrow stand for the external     *)
(* ledger; the model lets the ledger answer what its contract allows (a     *)
(* hash or none, confirmed or not, or an error), the placeholder's answer   *)
(* (a hash, not confirmed) being one of them.                               *)

ProposalIds == {"p1"}
\* an id no proposal was ever stored under
UnknownIds == {"p0"}
Signers == {"s1", "s2"}
Signatures == {"x", "y"}
Hashes == {"h1", "h2"}
LedgerError == [error |-> TRUE]
\* what _submit_escrow_transaction may return (hash = None: no "hash" key)
SubmitReplies ==
    {[error |-> FALSE, hash |-> h, confirmed |-> c] :
        h \in Hashes \cup {None}, c \in BOOLEAN}
    \cup {[error |-> TRUE, hash |-> None, confirmed |-> FALSE]}
\* what _finish_escrow may do: return a finish hash, or raise
FinishReplies == {"FIN", "LedgerError"}

\* signatures[signer] = signature on a dict kept in insertion order
SigKeys(d) == {d[i].signer : i \in 1..Len(d)}
SigPut_append(d, signer, signature) ==
    Append(d, [signer |-> signer, signature |-> signature])
SigPut(d, signer, signature) ==
    IF signer \in SigKeys(d)
    THEN [i \in 1..Len(d) |->
             IF d[i].signer = signer
             THEN [signer |-> signer, signature |-> signature] ELSE d[i]]
    ELSE Append(d, [signer |-> signer, signature |-> signature])

\* _get_proposal: found unless the id is unknown
Known(proposal_id) == proposal_id \in DOMAIN _proposal_store

Call(op, args, outcome, ret, sent) ==
    [op |-> op, args |-> args, outcome |-> outcome, ret |-> ret, sent |-> sent]

propose_settlement(group_id, fresh_id) ==
    LET got      == GetGroupBalances(_graphs, _nets_cache, group_id)
        nets     == got.ret
        payments == _build_payments(nets)
        escrows  == [i \in 1..Len(payments) |->
                        _build_escrow_instruction(group_id, payments[i])]
        args     == [group_id |-> group_id]
    IN
    /\ fresh_id \notin DOMAIN _proposal_store          \* str(uuid.uuid4())
    /\ _nets_cache' = got.cache
    /\ IF nets = << >>
       THEN /\ last' = Call("propose_settlement", args, "NoBalances", << >>, << >>)
            /\ UNCHANGED _proposal_store
       ELSE IF payments = << >>
       THEN /\ last' = Call("propose_settlement", args, "AlreadySettled", << >>, << >>)
            /\ UNCHANGED _proposal_store
       ELSE /\ _proposal_store' =
                  Put(_proposal_store, fresh_id,
                      SettlementProposal(fresh_id, group_id, payments, escrows))
            /\ last' = Call("propose_settlement", args, "ok", fresh_id, << >>)
    /\ UNCHANGED << _graphs, clock, threads, _balance_cache >>

\* the status add_signature leaves behind
StatusAfterSigning(status, signatures) ==
    IF Len(signatures) >= REQUIRED_SIGNATURES THEN "ready_to_broadcast" ELSE status

add_signature(proposal_id, signer, signature) ==
    LET args == [proposal_id |-> proposal_id, signer |-> signer,
                 signature |-> signature] IN
    /\ IF ~Known(proposal_id)
       THEN /\ last' = Call("add_signature", args, "NotFound", << >>, << >>)
            /\ UNCHANGED _proposal_store
       ELSE LET proposal   == _proposal_store[proposal_id]
                signatures == SigPut(proposal.signatures, signer, signature)
            IN /\ _proposal_store' = [_proposal_store EXCEPT ![proposal_id] =
                      [@ EXCEPT !.signatures = signatures,
                                !.status = StatusAfterSigning(@, signatures)]]
               /\ last' = Call("add_signature", args, "ok", << >>, << >>)
    /\ UNCHANGED << _graphs, _nets_cache, clock, threads, _balance_cache >>

\* The loop of broadcast_settlement without its test of escrow.confirmed:
\* every escrow is submitted again.
RECURSIVE BroadcastLoop_resubmit(_, _, _, _)
BroadcastLoop_resubmit(escrows, idx, replies, sent) ==
    IF idx > Len(escrows) THEN [escrows |-> escrows, raised |-> FALSE, sent |-> sent]
    ELSE LET response == replies[idx]
             asked    == Append(sent, [kind |-> "EscrowCreate", escrow |-> idx])
         IN IF response.error
            THEN [escrows |-> escrows, raised |-> TRUE, sent |-> asked]
            ELSE BroadcastLoop_resubmit(
                     [escrows EXCEPT ![idx] =
                         [@ EXCEPT !.tx_hash = IF response.hash = None
                                               THEN @ ELSE response.hash,
                                   !.confirmed = response.confirmed]],
                     idx + 1, replies, asked)

\* The for loop of broadcast_settlement from escrow idx on: replies[i] is the
\* ledger's answer should escrow i be submitted.  raised: the ledger's error
\* left the loop; sent: the escrows submitted.
RECURSIVE BroadcastLoop(_, _, _, _)
BroadcastLoop(escrows, idx, replies, sent) ==
    IF idx > Len(escrows) THEN [escrows |-> escrows, raised |-> FALSE, sent |-> sent]
    ELSE IF escrows[idx].confirmed
    THEN BroadcastLoop(escrows, idx + 1, replies, sent)
    ELSE LET response == replies[idx]
             asked    == Append(sent, [kind |-> "EscrowCreate", escrow |-> idx])
         IN IF response.error
            THEN [escrows |-> escrows, raised |-> TRUE, sent |-> asked]
            ELSE BroadcastLoop(
                     [escrows EXCEPT ![idx] =
                         [@ EXCEPT !.tx_hash = IF response.hash = None
                                               THEN @ ELSE response.hash,
                                   !.confirmed = response.confirmed]],
                     idx + 1, replies, asked)

CanBroadcast_loose(status) == status # "pending_signatures"
CanBroadcast(status) == status \in {"ready_to_broadcast", "broadcast"}

broadcast_settlement(proposal_id, replies) ==
    LET args == [proposal_id |-> proposal_id] IN
    /\ IF ~Known(proposal_id)
       THEN /\ last' = Call("broadcast_settlement", args, "NotFound", << >>, << >>)
            /\ UNCHANGED _proposal_store
       ELSE LET proposal == _proposal_store[proposal_id] IN
            IF ~CanBroadcast(proposal.status)
            THEN /\ last' = Call("broadcast_settlement", args, "NotReady", << >>, << >>)
                 /\ UNCHANGED _proposal_store
            ELSE LET r == BroadcastLoop(proposal.escrows, 1, replies, << >>) IN
                 /\ _proposal_store' = [_proposal_store EXCEPT ![proposal_id] =
                        [@ EXCEPT !.escrows = r.escrows,
                                  !.status = IF r.raised THEN @ ELSE "broadcast"]]
                 /\ last' = Call("broadcast_settlement", args,
                                 IF r.raised THEN "LedgerError" ELSE "ok",
                                 << >>, r.sent)
    /\ UNCHANGED << _graphs, _nets_cache, clock, threads, _balance_cache >>

\* The for loop of execute_escrows from escrow idx on: replies[i] is what
\* _finish_escrow does should escrow i be finished.
RECURSIVE ExecuteLoop(_, _, _, _, _)
ExecuteLoop(escrows, idx, replies, executed_hashes, sent) ==
    IF idx > Len(escrows)
    THEN [escrows |-> escrows, raised |-> FALSE,
          executed_hashes |-> executed_hashes, sent |-> sent]
    ELSE IF escrows[idx].executed \/ escrows[idx].tx_hash = None
    THEN ExecuteLoop(escrows, idx + 1, replies, executed_hashes, sent)
    ELSE LET asked == Append(sent, [kind |-> "EscrowFinish", escrow |-> idx]) IN
         IF replies[idx] = "LedgerError"
         THEN [escrows |-> escrows, raised |-> TRUE,
               executed_hashes |-> executed_hashes, sent |-> asked]
         ELSE ExecuteLoop([escrows EXCEPT ![idx].executed = TRUE], idx + 1, replies,
                          Append(executed_hashes, replies[idx]), asked)

AllExecuted(escrows) == \A i \in 1..Len(escrows) : escrows[i].executed

\* line 130: whether the pass completes the proposal
Completes(executed_hashes, escrows) ==
    executed_hashes # << >> /\ AllExecuted(escrows)

execute_escrows(proposal_id, replies) ==
    LET args == [proposal_id |-> proposal_id] IN
    /\ IF ~Known(proposal_id)
       THEN /\ last' = Call("execute_escrows", args, "NotFound", << >>, << >>)
            /\ UNCHANGED _proposal_store
       ELSE LET proposal == _proposal_store[proposal_id] IN
            IF proposal.status # "broadcast"
            THEN /\ last' = Call("execute_escrows", args, "NotBroadcast", << >>, << >>)
                 /\ UNCHANGED _proposal_store
            ELSE LET r == ExecuteLoop(proposal.escrows, 1, replies, << >>, << >>) IN
                 /\ _proposal_store' = [_proposal_store EXCEPT ![proposal_id] =
                        [@ EXCEPT !.escrows = r.escrows,
                                  !.status =
                                      IF ~r.raised /\ Completes(r.executed_hashes, r.escrows)
                                      THEN "completed" ELSE @]]
                 /\ last' = Call("execute_escrows", args,
                                 IF r.raised THEN "LedgerError" ELSE "ok",
                                 r.executed_hashes, r.sent)
    /\ UNCHANGED << _graphs, _nets_cache, clock, threads, _balance_cache >>

\* The stores the proposals are built from: each a sequence of add_iou calls
\* on g1, run from the empty store.
SeedCalls ==
    { << >>,
      << << "A", "B", 3 >> >>,
      << << "A", "B", 3 >>, << "A", "C", 3 >> >>,
      << << "A", "B", 1 >> >>,
      << << "A", "B", 3 >>, << "B", "A", 3 >> >> }

RECURSIVE AfterCalls(_)
AfterCalls(calls) ==
    IF calls = << >> THEN [graphs |-> NoGraphs, cache |-> NoCache, now |-> 0]
    ELSE LET s == AfterCalls(SubSeq(calls, 1, Len(calls) - 1))
             c == calls[Len(calls)]
             r == AddIou(s.graphs, s.cache, s.now, "g1", c[1], c[2], c[3])
         IN [graphs |-> r.graphs, cache |-> r.cache, now |-> r.now]

InitSettle ==
    \E calls \in SeedCalls :
        LET s == AfterCalls(calls) IN
        /\ _graphs = s.graphs
        /\ _nets_cache = s.cache
        /\ clock = s.now
        /\ _proposal_store = << >>
        /\ _balance_cache = NoBalanceCache
        /\ threads = << >>
        /\ last = Call("none", [proposal_id |-> None], "ok", << >>, << >>)

AllIds == ProposalIds \cup UnknownIds

\* one ledger answer per escrow of the proposal (none for an unknown id)
RepliesFor(proposal_id, answers) ==
    IF Known(proposal_id)
    THEN [1..Len(_proposal_store[proposal_id].escrows) -> answers]
    ELSE {<< >>}

NextSettle ==
    \/ \E g \in Groups, p \in ProposalIds : propose_settlement(g, p)
    \/ \E p \in AllIds, s \in Signers, x \in Signatures : add_signature(p, s, x)
    \/ \E p \in AllIds : \E replies \in RepliesFor(p, SubmitReplies) :
          broadcast_settlement(p, replies)
    \/ \E p \in AllIds : \E replies \in RepliesFor(p, FinishReplies) :
          execute_escrows(p, replies)

Spec == InitSettle /\ [][NextSettle]_vars

-----------------------------------------------------------------------------
(* The proposal store under concurrent calls.  settlement.py takes no lock: *)
(* worker threads may be switched between any two statements of             *)
(* add_signature, broadcast_settlement and execute_escrows.  Each statement *)
(* that reads or writes the proposal, or asks the ledger, is a step; the    *)
(* lookup of _get_proposal reads only the store's dict, which no step here  *)
(* writes, and is taken together with the statement that follows it.        *)

\* What one uninterrupted call does to a proposal: call.op with call.args,
\* the ledger answering call.replies[i] for escrow i.
ApplyCall(proposal, call) ==
    CASE call.op = "add_signature" ->
           LET signatures == SigPut(proposal.signatures,
                                    call.args.signer, call.args.signature)
           IN [proposal EXCEPT !.signatures = signatures,
                               !.status = StatusAfterSigning(@, signatures)]
      [] call.op = "broadcast_settlement" ->
           IF ~CanBroadcast(proposal.status) THEN proposal
           ELSE LET r == BroadcastLoop(proposal.escrows, 1, call.replies, << >>)
                IN [proposal EXCEPT !.escrows = r.escrows,
                                    !.status = IF r.raised THEN @ ELSE "broadcast"]
      [] call.op = "execute_escrows" ->
           IF proposal.status # "broadcast" THEN proposal
           ELSE LET r == ExecuteLoop(proposal.escrows, 1, call.replies, << >>, << >>)
                IN [proposal EXCEPT !.escrows = r.escrows,
                        !.status = IF ~r.raised /\ Completes(r.executed_hashes, r.escrows)
                                   THEN "completed" ELSE @]

RECURSIVE ApplyCalls(_, _)
ApplyCalls(proposal, calls) ==
    IF calls = << >> THEN proposal
    ELSE ApplyCalls(ApplyCall(proposal, Head(calls)), Tail(calls))

\* the ledger's placeholder answer to a submission
StubReply == [error |-> FALSE, hash |-> "h1", confirmed |-> FALSE]
SignCall(signer) ==
    [op |-> "add_signature", args |-> [signer |-> signer, signature |-> "x"],
     replies |-> << >>]
BroadcastCall == [op |-> "broadcast_settlement", args |-> << >>,
                  replies |-> << StubReply >>]

\* The proposal for one debt of 3 from A to B, as sequential calls leave it
\* before the threads start: signed once, signed twice, broadcast.
FreshProposal ==
    LET nets     == AfterCalls(<< << "A", "B", 3 >> >>).cache["g1"]
        payments == _build_payments(nets)
    IN SettlementProposal("p1", "g1", payments,
           [i \in 1..Len(payments) |-> _build_escrow_instruction("g1", payments[i])])
PriorCalls ==
    { << SignCall("s1") >>,
      << SignCall("s1"), SignCall("s2") >>,
      << SignCall("s1"), SignCall("s2"), BroadcastCall >> }

IdleCall == [pc |-> "idle", op |-> None, args |-> << >>, replies |-> << >>,
             idx |-> 0, response |-> None, executed_hashes |-> << >>,
             outcome |-> "none"]

\* a thread returns or raises
Return(t, outcome) ==
    [threads EXCEPT ![t] = [@ EXCEPT !.pc = "done", !.outcome = outcome]]

\* add_signature, lines 81-83: the lookup and signatures[signer] = signature
c_add_signature(t, proposal_id, signer, signature) ==
    /\ threads[t].pc = "idle"
    /\ Known(proposal_id)
    /\ _proposal_store' = [_proposal_store EXCEPT ![proposal_id].signatures =
                              SigPut(@, signer, signature)]
    /\ threads' = [threads EXCEPT ![t] =
          [@ EXCEPT !.pc = "S85", !.op = "add_signature",
                    !.args = [proposal_id |-> proposal_id, signer |-> signer,
                              signature |-> signature]]]
    /\ UNCHANGED << _graphs, _nets_cache, clock, last, _balance_cache >>

\* line 85: if len(proposal.signatures) >= REQUIRED_SIGNATURES
c_S85(t) ==
    LET me == threads[t] IN
    /\ me.pc = "S85"
    /\ threads' = IF Len(_proposal_store[me.args.proposal_id].signatures)
                        >= REQUIRED_SIGNATURES
                  THEN [threads EXCEPT ![t].pc = "S86"]
                  ELSE Return(t, "ok")
    /\ UNCHANGED << _graphs, _nets_cache, clock, _proposal_store, last, _balance_cache >>

\* line 86: proposal.status = "ready_to_broadcast"
c_S86(t) ==
    LET me == threads[t] IN
    /\ me.pc = "S86"
    /\ _proposal_store' = [_proposal_store EXCEPT
                              ![me.args.proposal_id].status = "ready_to_broadcast"]
    /\ threads' = Return(t, "ok")
    /\ UNCHANGED << _graphs, _nets_cache, clock, last, _balance_cache >>

\* broadcast_settlement, lines 95-99: the lookup and the test of the status
c_broadcast_settlement(t, proposal_id, replies) ==
    /\ threads[t].pc = "idle"
    /\ Known(proposal_id)
    /\ threads' = [threads EXCEPT ![t] =
          [@ EXCEPT !.pc = IF CanBroadcast(_proposal_store[proposal_id].status)
                           THEN "B101" ELSE "done",
                    !.outcome = IF CanBroadcast(_proposal_store[proposal_id].status)
                                THEN @ ELSE "NotReady",
                    !.op = "broadcast_settlement",
                    !.args = [proposal_id |-> proposal_id],
                    !.replies = replies, !.idx = 1]]
    /\ UNCHANGED << _graphs, _nets_cache, clock, _proposal_store, last, _balance_cache >>

\* lines 100-102: the next escrow of the loop, passed over when confirmed
c_B101(t) ==
    LET me      == threads[t]
        escrows == _proposal_store[me.args.proposal_id].escrows
    IN
    /\ me.pc = "B101"
    /\ threads' = [threads EXCEPT ![t] =
          IF me.idx > Len(escrows) THEN [@ EXCEPT !.pc = "B108"]
          ELSE IF escrows[me.idx].confirmed THEN [@ EXCEPT !.idx = @ + 1]
          ELSE [@ EXCEPT !.pc = "B103"]]
    /\ UNCHANGED << _graphs, _nets_cache, clock, _proposal_store, last, _balance_cache >>

\* line 103: response = _submit_escrow_transaction(escrow.transaction)
c_B103(t) ==
    LET me       == threads[t]
        response == me.replies[me.idx]
    IN
    /\ me.pc = "B103"
    /\ last' = [last EXCEPT !.sent =
                   Append(@, [kind |-> "EscrowCreate", escrow |-> me.idx,
                              answered |-> ~response.error])]
    /\ threads' = IF response.error THEN Return(t, "LedgerError")
                  ELSE [threads EXCEPT ![t] =
                           [@ EXCEPT !.pc = "B104", !.response = response]]
    /\ UNCHANGED << _graphs, _nets_cache, clock, _proposal_store, _balance_cache >>

\* line 104: escrow.tx_hash = response.get("hash", escrow.tx_hash)
c_B104(t) ==
    LET me == threads[t] IN
    /\ me.pc = "B104"
    /\ _proposal_store' = [_proposal_store EXCEPT
          ![me.args.proposal_id].escrows[me.idx].tx_hash =
              IF me.response.hash = None THEN @ ELSE me.response.hash]
    /\ threads' = [threads EXCEPT ![t].pc = "B105"]
    /\ UNCHANGED << _graphs, _nets_cache, clock, last, _balance_cache >>

\* lines 105-106: escrow.confirmed = response.get("confirmed", False)
c_B105(t) ==
    LET me == threads[t] IN
    /\ me.pc = "B105"
    /\ _proposal_store' = [_proposal_store EXCEPT
          ![me.args.proposal_id].escrows[me.idx].confirmed = me.response.confirmed]
    /\ threads' = [threads EXCEPT ![t] = [@ EXCEPT !.pc = "B101", !.idx = @ + 1]]
    /\ UNCHANGED << _graphs, _nets_cache, clock, last, _balance_cache >>

\* lines 108-111: proposal.status = "broadcast"
c_B108(t) ==
    LET me == threads[t] IN
    /\ me.pc = "B108"
    /\ _proposal_store' = [_proposal_store EXCEPT
                              ![me.args.proposal_id].status = "broadcast"]
    /\ threads' = Return(t, "ok")
    /\ UNCHANGED << _graphs, _nets_cache, clock, last, _balance_cache >>

\* execute_escrows, lines 118-122: the lookup and the test of the status
c_execute_escrows(t, proposal_id, replies) ==
    /\ threads[t].pc = "idle"
    /\ Known(proposal_id)
    /\ threads' = [threads EXCEPT ![t] =
          [@ EXCEPT !.pc = IF _proposal_store[proposal_id].status = "broadcast"
                           THEN "E124" ELSE "done",
                    !.outcome = IF _proposal_store[proposal_id].status = "broadcast"
                                THEN @ ELSE "NotBroadcast",
                    !.op = "execute_escrows",
                    !.args = [proposal_id |-> proposal_id],
                    !.replies = replies, !.idx = 1]]
    /\ UNCHANGED << _graphs, _nets_cache, clock, _proposal_store, last, _balance_cache >>

\* lines 123-125: the next escrow, passed over when executed or without hash
c_E124(t) ==
    LET me      == threads[t]
        escrows == _proposal_store[me.args.proposal_id].escrows
    IN
    /\ me.pc = "E124"
    /\ threads' = [threads EXCEPT ![t] =
          IF me.idx > Len(escrows) THEN [@ EXCEPT !.pc = "E130"]
          ELSE IF escrows[me.idx].executed \/ escrows[me.idx].tx_hash = None
          THEN [@ EXCEPT !.idx = @ + 1]
          ELSE [@ EXCEPT !.pc = "E126"]]
    /\ UNCHANGED << _graphs, _nets_cache, clock, _proposal_store, last, _balance_cache >>

\* line 126: finish_hash = _finish_escrow(escrow.tx_hash)
c_E126(t) ==
    LET me    == threads[t]
        reply == me.replies[me.idx]
    IN
    /\ me.pc = "E126"
    /\ last' = [last EXCEPT !.sent =
                   Append(@, [kind |-> "EscrowFinish", escrow |-> me.idx,
                              answered |-> reply # "LedgerError"])]
    /\ threads' = IF reply = "LedgerError" THEN Return(t, "LedgerError")
                  ELSE [threads EXCEPT ![t] =
                           [@ EXCEPT !.pc = "E127", !.response = reply]]
    /\ UNCHANGED << _graphs, _nets_cache, clock, _proposal_store, _balance_cache >>

\* lines 127-128: escrow.executed = True; executed_hashes.append(finish_hash)
c_E127(t) ==
    LET me == threads[t] IN
    /\ me.pc = "E127"
    /\ _proposal_store' = [_proposal_store EXCEPT
          ![me.args.proposal_id].escrows[me.idx].executed = TRUE]
    /\ threads' = [threads EXCEPT ![t] =
          [@ EXCEPT !.pc = "E124", !.idx = @ + 1,
                    !.executed_hashes = Append(@, me.response)]]
    /\ UNCHANGED << _graphs, _nets_cache, clock, last, _balance_cache >>

\* line 130: if executed_hashes and all(e.executed for e in proposal.escrows)
c_E130(t) ==
    LET me == threads[t] IN
    /\ me.pc = "E130"
    /\ threads' = IF Completes(me.executed_hashes,
                               _proposal_store[me.args.proposal_id].escrows)
                  THEN [threads EXCEPT ![t].pc = "E131"]
                  ELSE Return(t, "ok")
    /\ UNCHANGED << _graphs, _nets_cache, clock, _proposal_store, last, _balance_cache >>

\* lines 131-134: proposal.status = "completed"
c_E131(t) ==
    LET me == threads[t] IN
    /\ me.pc = "E131"
    /\ _proposal_store' = [_proposal_store EXCEPT
                              ![me.args.proposal_id].status = "completed"]
    /\ threads' = Return(t, "ok")
    /\ UNCHANGED << _graphs, _nets_cache, clock, last, _balance_cache >>

\* last.before keeps the proposal store the threads started from, last.sent
\* the requests the ledger has received from them
InitSettleConc ==
    \E prior \in PriorCalls :
        LET s == AfterCalls(<< << "A", "B", 3 >> >>) IN
        /\ _graphs = s.graphs
        /\ _nets_cache = s.cache
        /\ clock = s.now
        /\ _proposal_store = [p \in ProposalIds |-> ApplyCalls(FreshProposal, prior)]
        /\ _balance_cache = NoBalanceCache
        /\ threads = [t \in Threads |-> IdleCall]
        /\ last = [op |-> "none", before |-> _proposal_store, sent |-> << >>]

NextSettleConc ==
    \E t \in Threads :
        \/ \E p \in ProposalIds, s \in Signers, x \in Signatures :
              c_add_signature(t, p, s, x)
        \/ c_S85(t)
        \/ c_S86(t)
        \/ \E p \in ProposalIds : \E replies \in RepliesFor(p, SubmitReplies) :
              c_broadcast_settlement(t, p, replies)
        \/ c_B101(t)
        \/ c_B103(t)
        \/ c_B104(t)
        \/ c_B105(t)
        \/ c_B108(t)
        \/ \E p \in ProposalIds : \E replies \in RepliesFor(p, FinishReplies) :
              c_execute_escrows(t, p, replies)
        \/ c_E124(t)
        \/ c_E126(t)
        \/ c_E127(t)
        \/ c_E130(t)
        \/ c_E131(t)

SpecSettleConc == InitSettleConc /\ [][NextSettleConc]_vars

-----------------------------------------------------------------------------
(* A caller that drives one proposal to completion.  After any calls the   *)
(* driver picks a stored proposal that is not completed and calls           *)
(* add_signature for two distinct signers, then broadcast_settlement, then  *)
(* execute_escrows, nobody else calling meanwhile.  Throughout, the ledger   *)
(* accepts every submission, returns a hash and finishes every escrow.      *)

Driver(pc, proposal_id) == [pc |-> pc, proposal_id |-> proposal_id]
DriverIdle == ("driver" :> Driver("idle", None))

\* the driver's next call, the ledger answering every escrow alike
DriveCalls(escrows) ==
    [sign1     |-> SignCall("s1"),
     sign2     |-> SignCall("s2"),
     broadcast |-> [op |-> "broadcast_settlement", args |-> << >>,
                    replies |-> [i \in 1..Len(escrows) |-> StubReply]],
     execute   |-> [op |-> "execute_escrows", args |-> << >>,
                    replies |-> [i \in 1..Len(escrows) |-> "FIN"]]]
DriveThen ==
    [sign1 |-> "sign2", sign2 |-> "broadcast", broadcast |-> "execute",
     execute |-> "done"]
\* how the call ends: returned, or refused for the proposal's status
DriveOutcome(proposal, call) ==
    IF call.op = "broadcast_settlement" /\ ~CanBroadcast(proposal.status)
    THEN "NotReady"
    ELSE IF call.op = "execute_escrows" /\ proposal.status # "broadcast"
    THEN "NotBroadcast"
    ELSE "ok"

d_start(proposal_id) ==
    /\ threads["driver"].pc = "idle"
    /\ Known(proposal_id)
    /\ _proposal_store[proposal_id].status # "completed"
    /\ threads' = ("driver" :> Driver("sign1", proposal_id))
    /\ UNCHANGED << _graphs, _nets_cache, clock, _proposal_store, last,
                    _balance_cache >>

d_call ==
    LET me == threads["driver"] IN
    /\ me.pc \in DOMAIN DriveThen
    /\ \E proposal \in {_proposal_store[me.proposal_id]} :
       \E call \in {DriveCalls(proposal.escrows)[me.pc]} :
       \E after \in {ApplyCall(proposal, call)} :
          /\ _proposal_store' = [_proposal_store EXCEPT ![me.proposal_id] = after]
          /\ last' = Call(call.op, [proposal_id |-> me.proposal_id],
                          DriveOutcome(proposal, call), << >>, << >>)
    /\ threads' = ("driver" :> Driver(DriveThen[me.pc], me.proposal_id))
    /\ UNCHANGED << _graphs, _nets_cache, clock, _balance_cache >>

InitDrive ==
    \E calls \in SeedCalls :
        LET s == AfterCalls(calls) IN
        /\ _graphs = s.graphs
        /\ _nets_cache = s.cache
        /\ clock = s.now
        /\ _proposal_store = << >>
        /\ _balance_cache = NoBalanceCache
        /\ threads = DriverIdle
        /\ last = Call("none", [proposal_id |-> None], "ok", << >>, << >>)

\* the answers of a ledger that accepts every submission and returns a hash
GoodSubmitReplies == {r \in SubmitReplies : ~r.error /\ r.hash # None}

NextDrive ==
    \/ /\ threads["driver"].pc = "idle"
       /\ \/ \E g \in Groups, p \in ProposalIds : propose_settlement(g, p)
          \/ \E p \in AllIds, s \in Signers, x \in Signatures :
                add_signature(p, s, x)
          \/ \E p \in AllIds : \E replies \in RepliesFor(p, GoodSubmitReplies) :
                broadcast_settlement(p, replies)
          \/ \E p \in AllIds : \E replies \in RepliesFor(p, {"FIN"}) :
                execute_escrows(p, replies)
    \/ \E p \in ProposalIds : d_start(p)
    \/ d_call

SpecDrive == InitDrive /\ [][NextDrive]_vars /\ WF_vars(d_call)

-----------------------------------------------------------------------------
(* propose_settlement over the net balances a group can have *)

\* Amounts of the IOUs behind the balances, and how many IOUs were added.
PayAmounts == {1, 2, 4}
MaxPayCalls == 3

InitPay ==
    \E s \in ReachableStores(MaxPayCalls, Users, PayAmounts) :
        /\ _graphs = s.graphs
        /\ _nets_cache = s.cache
        /\ clock = s.now
        /\ _proposal_store = << >>
        /\ _balance_cache = NoBalanceCache
        /\ threads = << >>
        /\ last = Call("none", [group_id |-> None], "ok", << >>, << >>)

NextPay ==
    \E g \in Groups, p \in ProposalIds : propose_settlement(g, p)

SpecPay == InitPay /\ [][NextPay]_vars

-----------------------------------------------------------------------------
(* propose_settlement between add_iou calls: the balances of a group change *)
(* while earlier proposals are stored.                                      *)

ProposeIds == {"p1", "p2"}

InitPropose ==
    /\ _graphs = NoGraphs
    /\ _nets_cache = NoCache
    /\ clock = 0
    /\ _proposal_store = << >>
    /\ _balance_cache = NoBalanceCache
    /\ threads = << >>
    /\ last = NoCall

NextPropose ==
    \/ \E g \in Groups, d \in ConcUsers, c \in ConcUsers, a \in Amounts :
          add_iou(g, d, c, a)
    \/ \E g \in Groups, p \in ProposeIds : propose_settlement(g, p)

SpecPropose == InitPropose /\ [][NextPropose]_vars

-----------------------------------------------------------------------------
(* Balance synchronizer (services/balance_sync.py).                         *)
(* Balances are whole multiples of 2^-20 tokens, which floats hold and      *)
(* subtract exactly; the threshold 0.000001 of compute_deltas lies between  *)
(* 1 and 2 such units, so abs(delta) > 0.000001 is abs(delta) > 1 here.     *)
(* A balance map is a function from the addresses it holds.  The ledger     *)
(* is reached through get_mpt_balance, mint_to_holder and burn_from_holder  *)
(* of xrpl_client/mpt.py: a query answers the holder's balance or raises, a *)
(* mint or burn answers a transaction hash or raises.                       *)

Holders == {"X", "Y"}
TargetBalances == {-3, 0, 1, 3}
LedgerBalances == {0, 1, 3}
DeltaThreshold == 1
\* what get_mpt_balance, and what mint_to_holder or burn_from_holder, may do;
\* balance is what the holder has on the ledger when queried, error whether
\* the query raised instead of returning it
QueryReplies ==
    {[error |-> e, balance |-> b] : e \in BOOLEAN, b \in LedgerBalances}
OperationReplies == {[error |-> FALSE, hash |-> "h1"], LedgerError}

Abs(n) == IF n < 0 THEN 0 - n ELSE n
\* dict.get(k, default)
GetOr(m, k, default) == IF k \in DOMAIN m THEN m[k] ELSE default
BalanceMaps(values) == UNION {[d -> values] : d \in SUBSET Holders}
\* the orders in which a set can be iterated, or parallel work can complete
Orderings(S) == {s \in [1..Cardinality(S) -> S] : Range(s) = S}

BalanceDelta(address, current_balance, target_balance, delta) ==
    [address |-> address, current_balance |-> current_balance,
     target_balance |-> target_balance, delta |-> delta]
needs_mint(d) == d.delta > 0
needs_burn(d) == d.delta < 0
BalanceDelta_amount(d) == Abs(d.delta)

\* BalanceCache
get_cached_balances(cache, group_id) == GetOr(cache, group_id, << >>)
update_cache(cache, group_id, balances) == Put(cache, group_id, balances)
Remove(cache, group_id) == [g \in DOMAIN cache \ {group_id} |-> cache[g]]

\* compute_deltas: the test that keeps a delta
Significant_loose(d) == Abs(d.delta) >= DeltaThreshold

Significant(d) == Abs(d.delta) > DeltaThreshold

\* compute_deltas: one delta per address of either map, in the order the
\* set of addresses is iterated
DeltaOf(current_balances, target_balances, address) ==
    LET current == GetOr(current_balances, address, 0)
        target == GetOr(target_balances, address, 0)
    IN BalanceDelta(address, current, target, target - current)

compute_deltas(current_balances, target_balances, order) ==
    SelectSeq([i \in 1..Len(order) |->
                  DeltaOf(current_balances, target_balances, order[i])],
              Significant)

\* batch_execute_operations.execute_operation: the request sent to the
\* ledger and the (delta, success) result; every exception is caught
execute_operation(delta, reply) ==
    LET request(kind) == [kind |-> kind, address |-> delta.address,
                          amount |-> BalanceDelta_amount(delta),
                          answered |-> reply]
    IN IF needs_mint(delta)
       THEN [sent |-> << request("mint") >>,
             result |-> [delta |-> delta, success |-> ~reply.error]]
       ELSE IF needs_burn(delta)
       THEN [sent |-> << request("burn") >>,
             result |-> [delta |-> delta, success |-> ~reply.error]]
       ELSE [sent |-> << >>, result |-> [delta |-> delta, success |-> TRUE]]

\* batch_execute_operations: every delta is submitted; done is the order in
\* which the operations complete
batch_execute_operations(deltas, replies, done) ==
    [i \in 1..Len(deltas) |->
        execute_operation(deltas[done[i]], replies[deltas[done[i]].address])]

RECURSIVE Requests(_)
Requests(batch) ==
    IF batch = << >> THEN << >> ELSE Head(batch).sent \o Requests(Tail(batch))

\* sync_balances, step 5: the final balances
RECURSIVE FinalBalances_all(_, _)
FinalBalances_all(final_balances, batch) ==
    IF batch = << >> THEN final_balances
    ELSE LET delta == Head(batch).result.delta
         IN FinalBalances_all(
                Put(final_balances, delta.address, delta.target_balance),
                Tail(batch))

RECURSIVE FinalBalances(_, _)
FinalBalances(final_balances, batch) ==
    IF batch = << >> THEN final_balances
    ELSE LET r == Head(batch).result
         IN FinalBalances(
                IF r.success
                THEN Put(final_balances, r.delta.address,
                         r.delta.target_balance)
                ELSE final_balances,
                Tail(batch))

failed_operations(batch) ==
    Cardinality({i \in 1..Len(batch) : ~batch[i].result.success})

\* sync_balances, step 2: a query that raises counts as 0.0; when an address
\* is queried more than once the answer that completes last stays
Observed(reply) == IF reply.error THEN 0 ELSE reply.balance
CurrentBalances(holder_addresses, queried) ==
    {m \in [Range(holder_addresses) -> LedgerBalances] :
        \A a \in DOMAIN m :
           \E i \in 1..Len(holder_addresses) :
              holder_addresses[i] = a /\ m[a] = Observed(queried[i])}

SyncCall(group_id, holder_addresses, queried, current_balances, batch, total, ret) ==
    [op |-> "sync_balances",
     args |-> [group_id |-> group_id, holder_addresses |-> holder_addresses],
     before |-> _balance_cache, queried |-> queried,
     current_balances |-> current_balances,
     results |-> [i \in 1..Len(batch) |-> batch[i].result],
     sent |-> Requests(batch),
     \* "Some balance sync operations failed: {failed}/{total}"
     outcome |-> IF failed_operations(batch) > 0 THEN "XRPLClientError"
                 ELSE "ok",
     failed |-> failed_operations(batch), total |-> total, ret |-> ret]

sync_balances(group_id, holder_addresses) ==
    LET target_balances == get_cached_balances(_balance_cache, group_id) IN
    /\ \E queried \in [1..Len(holder_addresses) -> QueryReplies] :
       \E current_balances \in CurrentBalances(holder_addresses, queried) :
       \E order \in Orderings(DOMAIN current_balances
                                 \cup DOMAIN target_balances) :
       \E deltas \in {compute_deltas(current_balances, target_balances,
                                     order)} :
          IF deltas = << >>
          THEN /\ last' = SyncCall(group_id, holder_addresses, queried,
                                   current_balances, << >>, 0,
                                   current_balances)
               /\ UNCHANGED _balance_cache
          ELSE \E replies \in [{deltas[i].address : i \in 1..Len(deltas)}
                                   -> OperationReplies] :
               \E done \in Orderings(1..Len(deltas)) :
               \E batch \in {batch_execute_operations(deltas, replies,
                                                      done)} :
               \E final_balances \in {FinalBalances(current_balances,
                                                    batch)} :
                  /\ _balance_cache' = update_cache(_balance_cache, group_id,
                                                    final_balances)
                  /\ last' = SyncCall(
                        group_id, holder_addresses, queried,
                        current_balances, batch, Len(deltas),
                        IF failed_operations(batch) > 0 THEN None
                        ELSE final_balances)
    /\ UNCHANGED << _graphs, _nets_cache, clock, _proposal_store, threads >>

set_cached_nets(group_id, balances) ==
    /\ _balance_cache' = update_cache(_balance_cache, group_id, balances)
    /\ last' = [op |-> "set_cached_nets",
                args |-> [group_id |-> group_id, balances |-> balances],
                before |-> _balance_cache, outcome |-> "ok", ret |-> None]
    /\ UNCHANGED << _graphs, _nets_cache, clock, _proposal_store, threads >>

clear_cache(group_id) ==
    /\ _balance_cache' = IF group_id # None
                         THEN Remove(_balance_cache, group_id)
                         ELSE NoBalanceCache
    /\ last' = [op |-> "clear_cache", args |-> [group_id |-> group_id],
                before |-> _balance_cache, outcome |-> "ok", ret |-> None]
    /\ UNCHANGED << _graphs, _nets_cache, clock, _proposal_store, threads >>

HolderLists == {<< >>, << "X" >>, << "X", "Y" >>, << "X", "X" >>}

InitSync ==
    /\ _graphs = NoGraphs
    /\ _nets_cache = NoCache
    /\ clock = 0
    /\ _proposal_store = << >>
    /\ _balance_cache = NoBalanceCache
    /\ threads = << >>
    /\ last = NoCall

NextSync ==
    \/ \E g \in Groups, balances \in BalanceMaps(TargetBalances) :
          set_cached_nets(g, balances)
    \/ \E g \in Groups \cup {None} : clear_cache(g)
    \/ \E g \in Groups, holder_addresses \in HolderLists :
          sync_balances(g, holder_addresses)

SpecSync == InitSync /\ [][NextSync]_vars

-----------------------------------------------------------------------------
(* The while loop of _build_payments, one iteration per step, over Python   *)
(* floats: add_iou accepts every amount that is not <= 0, float('inf')      *)
(* included, so a net balance may be infinite.  A float is a finite number  *)
(* of units, an infinity, or nan (what inf - inf gives).                    *)

Fin(n) == [kind |-> "finite", value |-> n]
PosInf == [kind |-> "inf", value |-> 1]
NegInf == [kind |-> "inf", value |-> -1]
NaN    == [kind |-> "nan", value |-> 0]

\* a < b; every comparison with nan is False
FloatLess(a, b) ==
    IF a.kind = "nan" \/ b.kind = "nan" THEN FALSE
    ELSE IF a.kind = "finite" /\ b.kind = "finite" THEN a.value < b.value
    ELSE IF a.kind = "inf" /\ b.kind = "inf" THEN a.value < b.value
    ELSE IF a.kind = "inf" THEN a.value < 0
    ELSE b.value > 0
\* a <= b
FloatLessEq(a, b) ==
    IF a.kind = "nan" \/ b.kind = "nan" THEN FALSE
    ELSE a = b \/ FloatLess(a, b)
\* a - b
FloatSub(a, b) ==
    IF a.kind = "nan" \/ b.kind = "nan" THEN NaN
    ELSE IF a.kind = "finite" /\ b.kind = "finite" THEN Fin(a.value - b.value)
    ELSE IF a.kind = "inf" /\ b.kind = "inf"
         THEN IF a.value = b.value THEN NaN ELSE a
    ELSE IF a.kind = "inf" THEN a
    ELSE [kind |-> "inf", value |-> 0 - b.value]
\* -a
FloatNeg(a) == [kind |-> a.kind, value |-> 0 - a.value]
\* min(a, b): b when b < a, else a
FloatMin(a, b) == IF FloatLess(b, a) THEN b ELSE a

\* list.sort(key=amount, reverse=True) on float amounts (no nan among them)
RECURSIVE FloatSortDescending(_)
FloatSortDescending(items) ==
    IF items = << >> THEN << >>
    ELSE LET n      == Len(items)
             sorted == FloatSortDescending(SubSeq(items, 1, n - 1))
             x      == items[n]
             k      == Cardinality({i \in 1..Len(sorted) :
                                       FloatLessEq(x.amount, sorted[i].amount)})
         IN SubSeq(sorted, 1, k) \o << x >> \o SubSeq(sorted, k + 1, Len(sorted))

MaxPayments == 4
NetValues == {Fin(n) : n \in {-4, -2, -1, 2, 3, 4}} \cup {PosInf, NegInf}
\* the net-balance maps offered: one to three participants, in dict order
NetMaps ==
    UNION {{[i \in 1..n |-> [user |-> << "A", "B", "C" >>[i], amount |-> v[i]]] :
               v \in [1..n -> NetValues]} : n \in 1..3}

Frame(pc, nets, debtors, creditors, debtor_idx, creditor_idx, payments) ==
    [pc |-> pc, nets |-> nets, debtors |-> debtors, creditors |-> creditors,
     debtor_idx |-> debtor_idx, creditor_idx |-> creditor_idx,
     payments |-> payments]

\* lines 141-149: the two lists, the early return, the two sorts
b_L141 ==
    LET me == threads["t1"]
        owing == SelectSeq(me.nets, LAMBDA e : FloatLess(Fin(EPSILON), e.amount))
        owed  == SelectSeq(me.nets,
                           LAMBDA e : FloatLess(e.amount, Fin(0 - EPSILON)))
        creditors == [i \in 1..Len(owed) |->
                         [user |-> owed[i].user,
                          amount |-> FloatNeg(owed[i].amount)]]
    IN /\ me.pc = "L141"
       /\ threads' = [threads EXCEPT !["t1"] =
             IF owing = << >> \/ creditors = << >>
             THEN Frame("done", me.nets, owing, creditors, 1, 1, << >>)
             ELSE Frame("L154", me.nets, FloatSortDescending(owing),
                        FloatSortDescending(creditors), 1, 1, << >>)]
       /\ UNCHANGED << _graphs, _nets_cache, clock, _proposal_store, last,
                       _balance_cache >>

\* lines 154-167: the loop test that passes, and one pass of the body
b_L154 ==
    LET me == threads["t1"] IN
    /\ me.pc = "L154"
    /\ me.debtor_idx <= Len(me.debtors)
    /\ me.creditor_idx <= Len(me.creditors)
    /\ Len(me.payments) < MaxPayments
    /\ LET debtor   == me.debtors[me.debtor_idx]
           creditor == me.creditors[me.creditor_idx]
           amount   == FloatMin(debtor.amount, creditor.amount)
           d_left   == FloatSub(debtor.amount, amount)
           c_left   == FloatSub(creditor.amount, amount)
       IN threads' = [threads EXCEPT !["t1"] =
             Frame("L154", me.nets,
                   [me.debtors EXCEPT ![me.debtor_idx].amount = d_left],
                   [me.creditors EXCEPT ![me.creditor_idx].amount = c_left],
                   IF FloatLessEq(d_left, Fin(EPSILON))
                   THEN me.debtor_idx + 1 ELSE me.debtor_idx,
                   IF FloatLessEq(c_left, Fin(EPSILON))
                   THEN me.creditor_idx + 1 ELSE me.creditor_idx,
                   Append(me.payments,
                          Payment(debtor.user, creditor.user, amount)))]
    /\ UNCHANGED << _graphs, _nets_cache, clock, _proposal_store, last,
                    _balance_cache >>

\* line 154 failing, line 169: return payments
b_L169 ==
    LET me == threads["t1"] IN
    /\ me.pc = "L154"
    /\ ~(me.debtor_idx <= Len(me.debtors)
         /\ me.creditor_idx <= Len(me.creditors))
    /\ threads' = [threads EXCEPT !["t1"].pc = "done"]
    /\ UNCHANGED << _graphs, _nets_cache, clock, _proposal_store, last,
                    _balance_cache >>

InitMatch ==
    /\ _graphs = NoGraphs
    /\ _nets_cache = NoCache
    /\ clock = 0
    /\ _proposal_store = << >>
    /\ _balance_cache = NoBalanceCache
    /\ \E nets \in NetMaps :
          threads = ("t1" :> Frame("L141", nets, << >>, << >>, 1, 1, << >>))
    /\ last = NoCall

NextMatch == b_L141 \/ b_L154 \/ b_L169

SpecMatch == InitMatch /\ [][NextMatch]_vars

-----------------------------------------------------------------------------
(* Properties of the graph store (SpecGraph) *)

Amounts_(edges) == [i \in 1..Len(edges) |-> edges[i].amount]
NetAmounts(nets) == [i \in 1..Len(nets) |-> nets[i].amount]

\* the last call was an add_iou that returned
AddedOk == last.op = "add_iou" /\ last.outcome = "ok"
\* the group, the edge list before and after the last call, the edge offered
LastGroup == last.args.group_id
EdgesBefore == EdgesOf(last.before.graphs, LastGroup)
EdgesAfter == EdgesOf(_graphs, LastGroup)
LastEdge == Edge(last.args.debtor, last.args.creditor, last.args.amount)

(* C3: conservation of debt.  The nets returned by add_iou and by           *)
(* get_group_balances, and the nets cached for every group, sum to zero     *)
(* over the participants.                                                   *)
C3_Conservation ==
    /\ (last.op \in {"add_iou", "get_group_balances"} /\ last.outcome = "ok")
          => SumSeq(NetAmounts(last.ret)) = 0
    /\ \A g \in DOMAIN _nets_cache : SumSeq(NetAmounts(_nets_cache[g])) = 0

\* an add_iou that reduced a cycle and left non-zero balances behind
C3_Witness ==
    /\ AddedOk
    /\ last.cycle_path # << >>
    /\ \E i \in 1..Len(last.ret) : last.ret[i].amount # 0

\* es is the edge list of one directed cycle: p orders it into a closed walk
\* through Len(es) different participants
IsSingleCycle(es) ==
    LET n == Len(es) IN
    /\ n >= 2
    /\ Cardinality({es[i].debtor : i \in 1..n}) = n
    /\ \E p \in [1..n -> 1..n] :
          /\ \A i, j \in 1..n : p[i] = p[j] => i = j
          /\ \A i \in 1..n :
                es[p[i]].creditor = es[p[IF i = n THEN 1 ELSE i + 1]].debtor

\* the last add_iou completed a cycle of equal amounts that is all the group holds
ClosedEqualCycle ==
    /\ AddedOk
    /\ IsSingleCycle(Append(EdgesBefore, LastEdge))
    /\ \A i \in 1..Len(EdgesBefore) : EdgesBefore[i].amount = LastEdge.amount

(* C4: inserting, into a group without edges, the edges of one directed     *)
(* cycle whose amounts are all equal cancels the cycle: the edge list is    *)
(* empty afterwards and every participant's reported net is 0 (a            *)
(* participant without an entry in the returned map counts as 0).           *)
C4_EqualCycleCancels ==
    ClosedEqualCycle =>
        /\ EdgesAfter = << >>
        /\ \A u \in Users :
              /\ DictGet(last.ret, u) = 0
              /\ DictGet(_nets_cache[LastGroup], u) = 0

\* a cycle of three equal edges was closed
C4_Witness == ClosedEqualCycle /\ Len(EdgesBefore) = 2

\* min_amount of the last reduction: the least amount among the edges matched
\* along the cycle path in the list the reducer was given
MatchedMin ==
    LET given == Append(EdgesBefore, LastEdge)
        found == CycleIndices(given, CyclePairs(last.cycle_path), << >>)
    IN MinSeq([k \in 1..Len(found.indices) |-> given[found.indices[k]].amount])

(* C5: when add_iou closes a cycle, the sum of the group's edge amounts     *)
(* after the call is at least min_amount below the sum before the call plus *)
(* the new amount, min_amount > 0 being the least amount matched along the  *)
(* cycle, and no edge of the result is negative.                            *)
C5_CycleLowersDebt ==
    (AddedOk /\ last.cycle_path # << >>) =>
        /\ MatchedMin > 0
        /\ SumSeq(Amounts_(EdgesAfter)) + MatchedMin
              <= SumSeq(Amounts_(EdgesBefore)) + last.args.amount
        /\ \A i \in 1..Len(EdgesAfter) : EdgesAfter[i].amount >= 0

\* a cycle was closed and part of the debt is still outstanding
C5_Witness == AddedOk /\ last.cycle_path # << >> /\ EdgesAfter # << >>

(* C12: add_iou with amount <= 0 or with debtor = creditor fails with      *)
(* InvalidInput, and only then; the failed call creates no graph and leaves *)
(* the edge list, updated_at and cached nets of every group as they were.   *)
C12_InvalidInputNoChange ==
    (last.op = "add_iou") =>
        /\ (last.args.amount <= 0 \/ last.args.debtor = last.args.creditor)
              <=> (last.outcome = "InvalidInput")
        /\ (last.outcome = "InvalidInput") =>
              /\ _graphs = last.before.graphs
              /\ _nets_cache = last.before.cache

\* a call with a valid amount was refused for its self-loop on an unknown group
C12_Witness ==
    /\ last.op = "add_iou" /\ last.outcome = "InvalidInput"
    /\ last.args.amount > 0
    /\ LastGroup \notin DOMAIN _graphs

(* C13: every edge stored in every group's graph has amount > 0; an edge    *)
(* lowered to at most EPSILON by a cycle reduction is removed.              *)
C13_EdgesPositive ==
    \A g \in DOMAIN _graphs :
        \A i \in 1..Len(_graphs[g].edges) : _graphs[g].edges[i].amount > 0

\* a reduction lowered a matched edge to zero and removed it, other edges staying
C13_Witness ==
    /\ AddedOk /\ last.cycle_path # << >>
    /\ LET given == Append(EdgesBefore, LastEdge)
           found == CycleIndices(given, CyclePairs(last.cycle_path), << >>)
       IN \E k \in 1..Len(found.indices) :
             given[found.indices[k]].amount = MatchedMin
    /\ EdgesAfter # << >>
    /\ Len(EdgesAfter) < Len(EdgesBefore) + 1

-----------------------------------------------------------------------------
(* Properties of concurrent add_iou calls (SpecConc) *)

BothDone == \A t \in Threads : threads[t].pc = "done"

\* the store after thread a's call and then thread b's call, each run alone,
\* from the store the threads started from
SerialOrder(a, b) ==
    LET first == AddIou(last.before.graphs, last.before.cache, 0,
                        threads[a].group_id, threads[a].debtor,
                        threads[a].creditor, threads[a].amount)
    IN AddIou(first.graphs, first.cache, first.now,
              threads[b].group_id, threads[b].debtor,
              threads[b].creditor, threads[b].amount)

(* C2: two concurrent add_iou calls on the same group are atomic: both      *)
(* return, and the group's final edge list and cached nets are those of one *)
(* of the two serial orders of the calls.                                   *)
C2_SameGroupAtomic ==
    (BothDone /\ threads["t1"].group_id = threads["t2"].group_id) =>
        /\ \A t \in Threads : threads[t].outcome = "ok"
        /\ \E o \in {<< "t1", "t2" >>, << "t2", "t1" >>} :
              LET g == threads["t1"].group_id
                  s == SerialOrder(o[1], o[2])
              IN /\ _graphs[g].edges = s.graphs[g].edges
                 /\ _nets_cache[g] = s.cache[g]

\* what the store holds of group g; None where it holds nothing
GraphOf(graphs, g) == IF g \in DOMAIN graphs THEN graphs[g] ELSE None
CacheOf(cache, g) == IF g \in DOMAIN cache THEN cache[g] ELSE None

\* every step of thread t leaves the groups other than its own alone
OtherGroupsUntouched ==
    \A t \in Threads :
        threads'[t] # threads[t] =>
            \A g \in ConcGroups \ {threads'[t].group_id} :
                /\ GraphOf(_graphs', g) = GraphOf(_graphs, g)
                /\ CacheOf(_nets_cache', g) = CacheOf(_nets_cache, g)

\* thread t is inside an add_iou call
InCall(t) == threads[t].pc \notin {"idle", "done"}

(* C20: groups are isolated.  No step of an add_iou call on one group       *)
(* changes the edge list, updated_at or cached nets of another group, and a *)
(* call that is scheduled returns whatever the other thread does, also when *)
(* the other thread stops for ever in the middle of its own call: calls     *)
(* never block each other.                                                  *)
C20_GroupsIsolated ==
    /\ [][OtherGroupsUntouched]_vars
    /\ InCall("t1") ~> (threads["t1"].pc = "done")

\* both calls are in progress, on different groups, one of them in front of
\* its write of the edge list and the other behind it
C20_Witness ==
    /\ threads["t1"].pc = "L38" /\ threads["t2"].pc = "L41"
    /\ threads["t1"].group_id # threads["t2"].group_id
    /\ _graphs[threads["t2"].group_id].edges # << >>

-----------------------------------------------------------------------------
(* Properties of the proposal state machine (Spec) *)

Rank(status) ==
    CASE status = "pending_signatures" -> 0
      [] status = "ready_to_broadcast" -> 1
      [] status = "broadcast"          -> 2
      [] status = "completed"          -> 3

Stored == DOMAIN _proposal_store
\* the proposal the last call named, when it is stored
LastProposal == _proposal_store[last.args.proposal_id]
Refused == {"NotFound", "NotReady", "NotBroadcast"}
StateMachineOps == {"add_signature", "broadcast_settlement", "execute_escrows"}

(* C1: a proposal's status only moves forward along pending_signatures ->   *)
(* ready_to_broadcast -> broadcast -> completed: no add_signature,          *)
(* broadcast_settlement or execute_escrows call changes it to an earlier    *)
(* value.                                                                   *)
C1_StatusOnlyForward ==
    [][\A p \in Stored :
          Rank(_proposal_store'[p].status) >= Rank(_proposal_store[p].status)]_vars

(* C7: a proposal holds at most one signature per signer; it has left       *)
(* pending_signatures exactly when it holds signatures of at least          *)
(* REQUIRED_SIGNATURES signers, so that every proposal in                   *)
(* ready_to_broadcast, broadcast or completed is signed by at least two     *)
(* distinct signers and no proposal signed by two is still pending.         *)
C7_SignatureThreshold ==
    \A p \in Stored :
        LET signatures == _proposal_store[p].signatures IN
        /\ Cardinality(SigKeys(signatures)) = Len(signatures)
        /\ (_proposal_store[p].status = "pending_signatures")
              <=> (Cardinality(SigKeys(signatures)) < REQUIRED_SIGNATURES)

\* the signature that reached the threshold has just been added
C7_Witness ==
    /\ last.op = "add_signature" /\ last.outcome = "ok"
    /\ LastProposal.status = "ready_to_broadcast"
    /\ LastProposal.signatures[2].signer = last.args.signer
    /\ \A i \in 1..Len(LastProposal.escrows) : LastProposal.escrows[i].tx_hash = None

(* C8: broadcast_settlement on a proposal that is neither ready_to_broadcast *)
(* nor broadcast is refused (NotReady), execute_escrows on a proposal that  *)
(* is not broadcast is refused (NotBroadcast), and each of the three        *)
(* operations on an unknown proposal_id is refused (NotFound); a refused    *)
(* call submits nothing to the ledger and leaves every stored proposal as   *)
(* it was.                                                                  *)
C8_RefusedWithoutEffect ==
    [][(last'.op \in StateMachineOps) =>
          LET id == last'.args.proposal_id IN
          /\ (id \notin Stored) => last'.outcome = "NotFound"
          /\ (/\ id \in Stored
              /\ last'.op = "broadcast_settlement"
              /\ _proposal_store[id].status \notin {"ready_to_broadcast", "broadcast"})
                => last'.outcome = "NotReady"
          /\ (/\ id \in Stored
              /\ last'.op = "execute_escrows"
              /\ _proposal_store[id].status # "broadcast")
                => last'.outcome = "NotBroadcast"
          /\ (last'.outcome \in Refused) =>
                /\ last'.sent = << >>
                /\ _proposal_store' = _proposal_store]_vars

\* broadcast_settlement was refused on a completed proposal
C8_Witness ==
    /\ last.op = "broadcast_settlement" /\ last.outcome = "NotReady"
    /\ LastProposal.status = "completed"

(* C9: when an execute_escrows call returns and every escrow of the         *)
(* proposal is then executed, the proposal is completed, also when the pass *)
(* had no escrow to finish; and a completed proposal has every escrow       *)
(* executed.                                                                *)
C9_AllExecutedIsCompleted ==
    /\ (/\ last.op = "execute_escrows" /\ last.outcome = "ok"
        /\ AllExecuted(LastProposal.escrows))
          => LastProposal.status = "completed"
    /\ \A p \in Stored :
          _proposal_store[p].status = "completed"
             => AllExecuted(_proposal_store[p].escrows)

\* what C10 holds fixed of a proposal
Frozen(proposal) ==
    [status |-> proposal.status, signatures |-> proposal.signatures,
     escrows |-> [i \in 1..Len(proposal.escrows) |->
                    [tx_hash |-> proposal.escrows[i].tx_hash,
                     confirmed |-> proposal.escrows[i].confirmed,
                     executed |-> proposal.escrows[i].executed]]]

(* C10: a completed proposal is immutable: no later add_signature,          *)
(* broadcast_settlement or execute_escrows call changes its status, its     *)
(* signatures or any escrow's tx_hash, confirmed or executed field.         *)
C10_CompletedIsImmutable ==
    [][\A p \in Stored :
          _proposal_store[p].status = "completed"
             => Frozen(_proposal_store'[p]) = Frozen(_proposal_store[p])]_vars

\* the progress fields of a proposal's escrows
EscrowFields(proposal) ==
    [i \in 1..Len(proposal.escrows) |->
        [tx_hash |-> proposal.escrows[i].tx_hash,
         confirmed |-> proposal.escrows[i].confirmed,
         executed |-> proposal.escrows[i].executed]]

(* C14: when the ledger raises while broadcast_settlement or                *)
(* execute_escrows is part-way through the escrows, the call fails with the *)
(* ledger's error and the proposal is as before the call: same status, same *)
(* tx_hash, confirmed and executed of every escrow.                         *)
C14_LedgerErrorNoChange ==
    [][(last'.op \in {"broadcast_settlement", "execute_escrows"}
        /\ last'.outcome = "LedgerError") =>
          \A p \in Stored :
              /\ _proposal_store'[p].status = _proposal_store[p].status
              /\ EscrowFields(_proposal_store'[p]) = EscrowFields(_proposal_store[p])]_vars

(* C19: confirmed and executed of an escrow are monotonic: no               *)
(* broadcast_settlement or execute_escrows call (nor any other call) turns  *)
(* either from true to false.                                               *)
C19_FlagsMonotonic ==
    [][\A p \in Stored :
          \A i \in 1..Len(_proposal_store[p].escrows) :
              /\ _proposal_store[p].escrows[i].confirmed
                    => _proposal_store'[p].escrows[i].confirmed
              /\ _proposal_store[p].escrows[i].executed
                    => _proposal_store'[p].escrows[i].executed]_vars

\* a broadcast passed over a confirmed escrow and submitted another one; a
\* later broadcast on an executed escrow
C19_Witness ==
    /\ last.op = "broadcast_settlement" /\ last.outcome = "ok"
    /\ Len(LastProposal.escrows) = 2
    /\ LastProposal.escrows[1].confirmed
    /\ LastProposal.escrows[1].executed
    /\ last.sent = << [kind |-> "EscrowCreate", escrow |-> 2] >>

\* C27: an escrow that has been executed is never submitted again: no
\* broadcast_settlement call sends the escrow-create payload of an escrow
\* with executed = true to the ledger, nor replaces its tx_hash.
C27_ExecutedNotResubmitted ==
    [][(last'.op = "broadcast_settlement" /\ last'.args.proposal_id \in Stored) =>
          LET before == _proposal_store[last'.args.proposal_id]
              after  == _proposal_store'[last'.args.proposal_id]
          IN \A i \in 1..Len(before.escrows) :
                before.escrows[i].executed =>
                   /\ \A k \in 1..Len(last'.sent) : last'.sent[k].escrow # i
                   /\ after.escrows[i].tx_hash = before.escrows[i].tx_hash]_vars

-----------------------------------------------------------------------------
(* Properties of concurrent calls on one proposal (SpecSettleConc) *)

\* the call thread t made
CallOf(t) == [op |-> threads[t].op, args |-> threads[t].args,
              replies |-> threads[t].replies]

\* how many requests of a kind the ledger accepted for escrow i
Accepted(kind, i) ==
    Cardinality({k \in 1..Len(last.sent) :
                    /\ last.sent[k].kind = kind
                    /\ last.sent[k].escrow = i
                    /\ last.sent[k].answered})

\* the escrow-finish of no escrow was submitted and accepted more than once
FinishedOnce ==
    \A p \in Stored :
        \A i \in 1..Len(_proposal_store[p].escrows) : Accepted("EscrowFinish", i) <= 1

\* the proposal is as one of the two serial orders of the calls leaves it
SomeSerialOrder ==
    \A p \in Stored :
        \E o \in {<< "t1", "t2" >>, << "t2", "t1" >>} :
            _proposal_store[p] =
                ApplyCalls(last.before[p], << CallOf(o[1]), CallOf(o[2]) >>)

(* C11: concurrent add_signature, broadcast_settlement and execute_escrows  *)
(* calls on one proposal behave as if serialized: when both have returned,  *)
(* the proposal (status, signatures, escrows) is as one of the two serial   *)
(* orders of the calls leaves it, and at no time has the ledger accepted    *)
(* the escrow-finish of one escrow more than once.                          *)
C11_ProposalCallsSerialized ==
    /\ FinishedOnce
    /\ BothDone => SomeSerialOrder

-----------------------------------------------------------------------------
(* Properties of propose_settlement (SpecPay) *)

\* the balances the last propose_settlement read
ProposedNets == GetGroupBalances(_graphs, _nets_cache, last.args.group_id).ret
\* the payments it stored, none when it failed
ProposedPayments ==
    IF last.outcome = "ok" THEN _proposal_store[last.ret].payments ELSE << >>

Paid(payments, u) ==
    SumSeq([i \in 1..Len(payments) |->
               IF payments[i].payer = u THEN payments[i].amount ELSE 0])
Received(payments, u) ==
    SumSeq([i \in 1..Len(payments) |->
               IF payments[i].payee = u THEN payments[i].amount ELSE 0])

\* balances that sum to zero and are not all zero
ZeroSumNotAllZero(nets) ==
    /\ SumSeq(NetAmounts(nets)) = 0
    /\ \E i \in 1..Len(nets) : nets[i].amount # 0

\* payments that clear nets exactly
Clears(payments, nets) ==
    /\ payments # << >>
    /\ \A i \in 1..Len(payments) :
          /\ payments[i].amount > 0
          /\ DictGet(nets, payments[i].payer) > 0
          /\ DictGet(nets, payments[i].payee) < 0
    /\ \A u \in DictKeys(nets) :
          /\ DictGet(nets, u) > 0 => Paid(payments, u) = DictGet(nets, u)
          /\ DictGet(nets, u) < 0 => Received(payments, u) = 0 - DictGet(nets, u)
          /\ DictGet(nets, u) <= 0 => Paid(payments, u) = 0
          /\ DictGet(nets, u) >= 0 => Received(payments, u) = 0
    /\ SumSeq([i \in 1..Len(payments) |-> payments[i].amount])
          = SumSeq([i \in 1..Len(nets) |->
                       IF nets[i].amount > 0 THEN nets[i].amount ELSE 0])

\* The smallest amount of the model above EPSILON.
PayUnit == EPSILON + 1
WholeUnits(nets) == \A i \in 1..Len(nets) : nets[i].amount % PayUnit = 0

\* C6 as claimed: for balances that sum to zero and are not all zero,
\* propose_settlement produces payments that clear them exactly.
C6_PaymentsClear ==
    (last.op = "propose_settlement" /\ ZeroSumNotAllZero(ProposedNets)) =>
        /\ last.outcome = "ok"
        /\ Clears(ProposedPayments, ProposedNets)

(* C6, amended: for balances that are whole multiples of a unit larger than *)
(* epsilon, sum to zero and are not all zero, propose_settlement produces   *)
(* payments that clear them: every payment is positive, from a payer with   *)
(* positive net to a payee with negative net, each debtor pays exactly its  *)
(* net, each creditor receives exactly the absolute value of its net, and   *)
(* the payments sum to the total positive net.                              *)
C6_PaymentsClearWholeUnits ==
    (/\ last.op = "propose_settlement"
     /\ ZeroSumNotAllZero(ProposedNets)
     /\ WholeUnits(ProposedNets)) =>
        /\ last.outcome = "ok"
        /\ Clears(ProposedPayments, ProposedNets)

\* one debtor was matched against two creditors of different size
C6_Witness ==
    /\ last.op = "propose_settlement" /\ last.outcome = "ok"
    /\ ZeroSumNotAllZero(ProposedNets)
    /\ WholeUnits(ProposedNets)
    /\ Len(ProposedPayments) = 2
    /\ ProposedPayments[1].payer = ProposedPayments[2].payer
    /\ ProposedPayments[1].amount > ProposedPayments[2].amount

\* the balances a propose_settlement call on group_id reads
NetsOf(group_id) == GetGroupBalances(_graphs, _nets_cache, group_id).ret
\* no participant with net > EPSILON, or none with net < -EPSILON
OneSideEmpty(nets) ==
    \/ ~ \E i \in 1..Len(nets) : nets[i].amount > EPSILON
    \/ ~ \E i \in 1..Len(nets) : nets[i].amount < 0 - EPSILON

(* C17: propose_settlement fails with NoBalances exactly when the group's   *)
(* net balances are empty (unknown group, or graph without edges) and with  *)
(* AlreadySettled exactly when they are not empty and no participant has    *)
(* net > EPSILON or none has net < -EPSILON; a failed call adds no proposal *)
(* and changes no stored proposal and no graph.                             *)
C17_NothingToSettle ==
    [][(last'.op = "propose_settlement") =>
          LET nets == NetsOf(last'.args.group_id) IN
          /\ (nets = << >>) <=> (last'.outcome = "NoBalances")
          /\ (nets # << >> /\ OneSideEmpty(nets))
                <=> (last'.outcome = "AlreadySettled")
          /\ (last'.outcome \in {"NoBalances", "AlreadySettled"}) =>
                /\ _proposal_store' = _proposal_store
                /\ _graphs' = _graphs]_vars

\* with a proposal stored, the group's debts shrank to at most EPSILON and a
\* new proposal was refused
C17_Witness ==
    /\ last.op = "propose_settlement" /\ last.outcome = "AlreadySettled"
    /\ _proposal_store # << >>
    /\ NetsOf(last.args.group_id) # << >>

\* nets in every iteration order a dict of the same entries can have
Orders(nets) ==
    LET n == Len(nets) IN
    {[i \in 1..n |-> nets[f[i]]] :
        f \in {g \in [1..n -> 1..n] : \A i, j \in 1..n : g[i] = g[j] => i = j}}

\* no two debtors owe the same amount and no two creditors are owed the same
DistinctSides(nets) ==
    \A i, j \in 1..Len(nets) :
        (/\ i # j
         /\ nets[i].amount = nets[j].amount) => nets[i].amount \in -EPSILON..EPSILON

\* C18 as claimed: the payment list is the same whatever the iteration order
\* of the net balances.
C18_OrderIndependent ==
    (last.op = "propose_settlement" /\ last.outcome = "ok") =>
        \A other \in Orders(ProposedNets) :
            _build_payments(other) = ProposedPayments

(* C18, amended: for net balances in which no two debtors owe the same      *)
(* amount and no two creditors are owed the same amount, propose_settlement *)
(* yields the same payment list (payers, payees, amounts, order) whatever   *)
(* the iteration order of the balances.                                     *)
C18_OrderIndependentWithoutTies ==
    (/\ last.op = "propose_settlement" /\ last.outcome = "ok"
     /\ DistinctSides(ProposedNets)) =>
        \A other \in Orders(ProposedNets) :
            _build_payments(other) = ProposedPayments

\* two creditors of different size, met in ascending order: the sort moved them
C18_Witness ==
    /\ last.op = "propose_settlement" /\ last.outcome = "ok"
    /\ DistinctSides(ProposedNets)
    /\ Len(ProposedPayments) = 2
    /\ \E i, j \in 1..Len(ProposedNets) :
          /\ i < j
          /\ ProposedNets[j].amount < ProposedNets[i].amount
          /\ ProposedNets[i].amount < 0 - EPSILON

-----------------------------------------------------------------------------
(* Properties of the balance synchronizer (SpecSync) *)

Synced == last.op = "sync_balances"
\* the target map the call read, the current map it observed, and the
\* difference target - current of an address, absent entries counting as 0
SyncTarget == get_cached_balances(last.before, last.args.group_id)
SyncCurrent == last.current_balances
Difference(a) == GetOr(SyncTarget, a, 0) - GetOr(SyncCurrent, a, 0)
\* the mints or burns of the call that were issued for an address
Issued(a) == {i \in 1..Len(last.sent) : last.sent[i].address = a}
IssuedOnce(a, kind, amount) ==
    /\ Cardinality(Issued(a)) = 1
    /\ \A i \in Issued(a) :
          last.sent[i].kind = kind /\ last.sent[i].amount = amount

(* C15: a sync_balances call issues, for every address of the target map   *)
(* or of the observed current map, exactly one mint of target - current     *)
(* when that exceeds 1e-6 (one unit here), exactly one burn of              *)
(* current - target when that exceeds 1e-6, and nothing when the absolute   *)
(* difference is at most 1e-6, absent entries counting as 0; it issues no   *)
(* mint or burn for any other address.                                      *)
C15_OneOperationPerDelta ==
    Synced =>
       /\ \A a \in DOMAIN SyncTarget \cup DOMAIN SyncCurrent :
             /\ Difference(a) > 1 => IssuedOnce(a, "mint", Difference(a))
             /\ 0 - Difference(a) > 1
                   => IssuedOnce(a, "burn", 0 - Difference(a))
             /\ (Difference(a) <= 1 /\ 0 - Difference(a) <= 1)
                   => Issued(a) = {}
       /\ \A i \in 1..Len(last.sent) :
             last.sent[i].address \in DOMAIN SyncTarget \cup DOMAIN SyncCurrent

\* one call that mints for one holder (target 3, current 1: a mint of 2) and
\* burns for the other
C15_Witness ==
    /\ Synced
    /\ Len(last.sent) = 2
    /\ \E i \in 1..2 :
          /\ last.sent[i].kind = "mint" /\ last.sent[i].amount = 2
          /\ GetOr(SyncTarget, last.sent[i].address, 0) = 3
    /\ \E i \in 1..2 : last.sent[i].kind = "burn"

\* the mints and burns of the call that the ledger refused, and those it
\* carried out
FailedOps == {i \in 1..Len(last.sent) : last.sent[i].answered.error}
SucceededOps == (1..Len(last.sent)) \ FailedOps
CachedAfter == get_cached_balances(_balance_cache, last.args.group_id)
\* succeeded holders map to their target, failed holders keep what the call
\* observed for them (nothing, when it observed nothing)
BestKnown(balances) ==
    /\ \A i \in SucceededOps :
          LET a == last.sent[i].address
          IN a \in DOMAIN balances /\ balances[a] = GetOr(SyncTarget, a, 0)
    /\ \A i \in FailedOps :
          LET a == last.sent[i].address
          IN IF a \in DOMAIN SyncCurrent
             THEN a \in DOMAIN balances /\ balances[a] = SyncCurrent[a]
             ELSE a \notin DOMAIN balances

(* C16: when a mint or burn of a sync_balances call fails, every other      *)
(* operation of the call is still attempted, the cache of the group holds   *)
(* the target balance of each holder whose operation succeeded and the      *)
(* observed pre-sync balance of each holder whose operation failed, and the *)
(* call raises an error that names the number of failed operations; when    *)
(* no operation fails the call returns these balances without raising.      *)
C16_PartialFailure ==
    Synced =>
       /\ FailedOps # {} =>
             /\ \A a \in DOMAIN SyncTarget \cup DOMAIN SyncCurrent :
                   (Difference(a) > 1 \/ 0 - Difference(a) > 1)
                      => Issued(a) # {}
             /\ last.args.group_id \in DOMAIN _balance_cache
             /\ BestKnown(CachedAfter)
             /\ last.outcome = "XRPLClientError"
             /\ last.failed = Cardinality(FailedOps)
       /\ FailedOps = {} => (last.outcome = "ok" /\ BestKnown(last.ret))

\* one call in which one operation failed and another succeeded
C16_Witness ==
    /\ Synced
    /\ FailedOps # {}
    /\ SucceededOps # {}
    /\ last.outcome = "XRPLClientError"
    /\ CachedAfter # SyncTarget

-----------------------------------------------------------------------------
(* Further properties of the graph store (SpecGraph) *)

\* the participants reached from a set by following edges debtor -> creditor
RECURSIVE ReachedFrom(_, _)
ReachedFrom(edges, seen) ==
    LET more == seen \cup {edges[i].creditor :
                              i \in {j \in 1..Len(edges) : edges[j].debtor \in seen}}
    IN IF more = seen THEN seen ELSE ReachedFrom(edges, more)
\* edges holds a directed path from one participant to another
HasPath(edges, from, to) == to \in ReachedFrom(edges, {from})
IsEdge(edges, from, to) ==
    \E i \in 1..Len(edges) : edges[i].debtor = from /\ edges[i].creditor = to

(* C21: a valid add_iou(g, d, c, a) reduces a cycle exactly when the edge   *)
(* list held before the call has a directed path from c to d.  Then         *)
(* detect_cycle returns a closed path c -> ... -> d -> c whose consecutive  *)
(* pairs, the last excepted, are existing edges and whose last pair is      *)
(* (d, c).  Otherwise it returns None and the new edge list is the previous *)
(* list with the new edge appended.                                         *)
C21_ReductionIffPath ==
    AddedOk =>
       LET d == last.args.debtor
           c == last.args.creditor
           path == last.cycle_path
           n == Len(path)
       IN IF HasPath(EdgesBefore, c, d)
          THEN /\ n >= 3
               /\ path[1] = c /\ path[n - 1] = d /\ path[n] = c
               /\ \A k \in 1..(n - 2) : IsEdge(EdgesBefore, path[k], path[k + 1])
               /\ EdgesAfter # Append(EdgesBefore, LastEdge)
          ELSE /\ path = << >>
               /\ EdgesAfter = Append(EdgesBefore, LastEdge)

\* a call that closed a cycle through a third participant
C21_Witness ==
    /\ AddedOk
    /\ Len(last.cycle_path) = 4
    /\ ~IsEdge(EdgesBefore, last.args.creditor, last.args.debtor)

\* the list the reducer of the last call was given
Given == Append(EdgesBefore, LastEdge)
\* per consecutive pair of the cycle path, the first edge in list order with
\* that debtor and creditor which no earlier pair has taken
RECURSIVE FirstMatches(_, _, _)
FirstMatches(edges, path, taken) ==
    IF Len(path) < 2 THEN taken
    ELSE LET mine == {i \in 1..Len(edges) : /\ edges[i].debtor = path[1]
                                           /\ edges[i].creditor = path[2]
                                           /\ i \notin taken}
         IN IF mine = {} THEN taken
            ELSE FirstMatches(edges, Tail(path),
                     taken \cup {CHOOSE i \in mine : \A j \in mine : i <= j})
RECURSIVE Flatten(_)
Flatten(ss) == IF ss = << >> THEN << >> ELSE Head(ss) \o Flatten(Tail(ss))
\* the list in which each matched edge is lowered by the least matched
\* amount and dropped when no more than floor is left, the others staying
LoweredBy(edges, matched, floor) ==
    LET least == CHOOSE m \in {edges[i].amount : i \in matched} :
                     \A i \in matched : m <= edges[i].amount
    IN Flatten([i \in 1..Len(edges) |->
                   IF i \notin matched THEN << edges[i] >>
                   ELSE IF edges[i].amount - least > floor
                   THEN << Edge(edges[i].debtor, edges[i].creditor,
                                edges[i].amount - least) >>
                   ELSE << >>])
Reduced == AddedOk /\ last.cycle_path # << >>

\* C22 as claimed: a matched edge is dropped only when it reaches zero.
C22_OneEdgePerPair ==
    Reduced =>
       LET matched == FirstMatches(Given, last.cycle_path, {}) IN
       /\ Cardinality(matched) = Len(last.cycle_path) - 1
       /\ EdgesAfter = LoweredBy(Given, matched, 0)

(* C22, amended: reduce_cycle changes exactly one edge per consecutive      *)
(* (from, to) pair of the cycle path, the first edge in list order with     *)
(* that debtor and creditor that is not already matched; each matched edge  *)
(* is lowered by the same min_amount, the least matched amount, and is      *)
(* dropped when at most EPSILON is left of it; every other edge, parallel   *)
(* edges included, keeps its amount and its place among the others.         *)
C22_OneEdgePerPairEpsilon ==
    Reduced =>
       LET matched == FirstMatches(Given, last.cycle_path, {}) IN
       /\ Cardinality(matched) = Len(last.cycle_path) - 1
       /\ EdgesAfter = LoweredBy(Given, matched, EPSILON)

\* a reduction that took the first of two parallel edges, dropped one matched
\* edge and left the other lowered
C22_Witness ==
    /\ Reduced
    /\ \E i, j \in 1..Len(EdgesBefore) :
          /\ i < j
          /\ EdgesBefore[i].debtor = EdgesBefore[j].debtor
          /\ EdgesBefore[i].creditor = EdgesBefore[j].creditor
          /\ i \in FirstMatches(Given, last.cycle_path, {})
    /\ Len(EdgesAfter) + 1 = Len(Given)


\* the net position a valid add_iou(g, d, c, a) should leave a participant
\* in: its net before the call, plus a for d, minus a for c
NetBefore(u) == DictGet(compute_nets(EdgesBefore), u)
NetDue(u) ==
    NetBefore(u) + (IF u = last.args.debtor THEN last.args.amount ELSE 0)
                 - (IF u = last.args.creditor THEN last.args.amount ELSE 0)
\* the matched edges of the last reduction of which a positive remainder of
\* at most EPSILON was dropped
DroppedRemainders ==
    IF last.cycle_path = << >> THEN {}
    ELSE {i \in FirstMatches(Given, last.cycle_path, {}) :
             /\ Given[i].amount - MatchedMin > 0
             /\ Given[i].amount - MatchedMin <= EPSILON}

\* C25 as claimed: every participant's net position after a valid add_iou is
\* its net before plus a for the debtor, minus a for the creditor.
C25_NetsPreserved ==
    AddedOk => \A u \in Users : DictGet(last.ret, u) = NetDue(u)

(* C25, amended: cycle reduction changes a net position by no more than     *)
(* EPSILON.  After every valid add_iou(g, d, c, a) each participant's net   *)
(* balance is within EPSILON of its net before the call plus a for d, minus *)
(* a for c, and equal to it unless the reduction dropped a matched edge     *)
(* with a positive remainder of at most EPSILON.                            *)
C25_NetsPreservedUpToEpsilon ==
    AddedOk =>
       /\ \A u \in Users :
             /\ DictGet(last.ret, u) - NetDue(u) <= EPSILON
             /\ NetDue(u) - DictGet(last.ret, u) <= EPSILON
       /\ DroppedRemainders = {} =>
             \A u \in Users : DictGet(last.ret, u) = NetDue(u)

\* a reduction that left part of the debt standing, no remainder dropped,
\* after which the nets are the ones due
C25_Witness ==
    /\ Reduced
    /\ DroppedRemainders = {}
    /\ EdgesAfter # << >>
    /\ \E u \in Users : NetDue(u) # 0 /\ NetDue(u) # NetBefore(u)

\* no edge of the list lies on a directed cycle
Acyclic(edges) ==
    \A i \in 1..Len(edges) : ~HasPath(edges, edges[i].creditor, edges[i].debtor)

\* C26: after every successful add_iou the edge list of the group holds no
\* directed cycle; in particular no two participants have edges in both
\* directions.
C26_NoCycleLeft ==
    AddedOk =>
       /\ Acyclic(EdgesAfter)
       /\ \A i, j \in 1..Len(EdgesAfter) :
             ~(/\ EdgesAfter[i].debtor = EdgesAfter[j].creditor
               /\ EdgesAfter[i].creditor = EdgesAfter[j].debtor)
(* C24: the nets cache is never stale.  In every state reached by add_iou   *)
(* and get_group_balances calls made one after the other,                   *)
(* get_group_balances(g) is compute_nets of the current edge list of g, and *)
(* the empty mapping for a group without a graph; a get_group_balances call *)
(* changes no edge list.                                                    *)
C24_CacheNeverStale ==
    /\ \A g \in Groups :
          GetGroupBalances(_graphs, _nets_cache, g).ret
             = IF g \in DOMAIN _graphs THEN compute_nets(_graphs[g].edges)
               ELSE << >>
    /\ last.op = "get_group_balances" =>
          /\ _graphs = last.before.graphs
          /\ last.ret = IF LastGroup \in DOMAIN _graphs
                        THEN compute_nets(_graphs[LastGroup].edges) ELSE << >>

\* balances read from the cache after a second insertion changed the edges
C24_Witness ==
    /\ last.op = "get_group_balances"
    /\ LastGroup \in DOMAIN last.before.cache
    /\ clock >= 2
    /\ last.ret # << >>

-----------------------------------------------------------------------------
(* Properties of the matching loop (SpecMatch) *)

\* C23: for every net-balance map with at least one debtor and one creditor
\* the payments of _build_payments number at most debtors + creditors - 1;
\* the list only grows, so the bound holds at every pass of a loop that
\* ends within it.
C23_PaymentBound ==
    LET me == threads["t1"] IN
    (me.pc # "L141" /\ me.debtors # << >> /\ me.creditors # << >>)
       => Len(me.payments) <= Len(me.debtors) + Len(me.creditors) - 1

-----------------------------------------------------------------------------
(* Properties of the driven proposal (SpecDrive) *)

DrivenProposal == _proposal_store[threads["driver"].proposal_id]

\* C28: every proposal can be driven to completion.  Whatever calls were
\* made before, once the driver takes up a proposal that is not completed,
\* two distinct signers sign, broadcast_settlement and then execute_escrows
\* are called and the ledger answers each submission with a hash, the
\* proposal reaches status completed with every escrow executed.
C28_DrivenToCompletion ==
    (threads["driver"].pc = "sign1")
       ~> (/\ threads["driver"].pc = "done"
           /\ DrivenProposal.status = "completed"
           /\ AllExecuted(DrivenProposal.escrows))

\* Why the drive cannot succeed there (holds under Spec, whatever the ledger
\* answers): once every escrow of a proposal is executed while its status
\* is not completed, no call of any kind completes it.
ExecutedButNotCompletedStays ==
    [][\A p \in Stored :
          (/\ AllExecuted(_proposal_store[p].escrows)
           /\ _proposal_store[p].status # "completed")
             => (/\ AllExecuted(_proposal_store'[p].escrows)
                 /\ _proposal_store'[p].status # "completed")]_vars

\* C29: sync_balances does not lose the targets it reconciles against: after
\* a call in which the mint or burn of some holder failed, the target
\* recorded for that holder is the one the call read, so that the next call
\* for the group issues the holder's mint or burn again.
C29_TargetKept ==
    Synced =>
       \A i \in FailedOps :
          GetOr(CachedAfter, last.sent[i].address, 0)
             = GetOr(SyncTarget, last.sent[i].address, 0)

\* the balance the ledger held for a holder when the call asked for it
QueriedFor(a) ==
    {last.queried[k].balance :
        k \in {j \in 1..Len(last.queried) : last.args.holder_addresses[j] = a}}

\* C30: sync_balances never mints past the target: every mint it issues for
\* a holder it queried has amount target minus the balance the holder had on
\* the ledger at query time, also when the query failed, so the mint does
\* not lift the holder's balance above its target.
C30_NoMintPastTarget ==
    Synced =>
       \A i \in 1..Len(last.sent) :
          LET a == last.sent[i].address IN
          (last.sent[i].kind = "mint" /\ QueriedFor(a) # {}) =>
             \E held \in QueriedFor(a) :
                /\ last.sent[i].amount = GetOr(SyncTarget, a, 0) - held
                /\ held + last.sent[i].amount <= GetOr(SyncTarget, a, 0)
=============================================================================
